---- MODULE Spec2Model ----
(***************************************************************************)
(* Blender Agent add-on: the line-delimited JSON-RPC socket server         *)
(* (blender_addon/__init__.py), the bridge that runs handlers on Blender's *)
(* main thread through bpy.app.timers, and the dynamic skill registry with *)
(* its statistics store (blender_addon/handlers/dynamic_skills.py).        *)
(***************************************************************************)
EXTENDS Integers, Sequences, FiniteSets, TLC

\* ------------------------------------------------------------------------
\* Bounds
\* ------------------------------------------------------------------------
MaxRequests == 2    \* request lines the client sends in one run
MaxBatch == 2       \* complete lines one recv() may deliver
MaxElapsed == 1     \* largest elapsed_ms a handler run is measured at
MaxTimeouts == 1    \* waits that run into the 30 second timeout in one run
MaxNested == 1      \* nested call_handler calls of one compound handler run
MaxThreads == 2     \* accept threads start() creates in one run
MaxClients == 2     \* client connections accepted in one run
MaxStarts == 2      \* start() calls in one run
MaxStops == 2       \* stop() calls in one run
MaxOps == 3         \* store operations begun in one run
MaxStream == 4      \* bytes a peer sends on one connection
MaxSends == 3       \* send_request calls of one client

\* ------------------------------------------------------------------------
\* JSON-RPC error codes used by _process_request
\* ------------------------------------------------------------------------
PARSE_ERROR == -32700
INVALID_REQUEST == -32600
METHOD_NOT_FOUND == -32601
INTERNAL_ERROR == -32603

\* ------------------------------------------------------------------------
\* Python values
\* ------------------------------------------------------------------------
None == "None"            \* Python None / JSON null
Absent == "<absent>"      \* a key that is not in a dict
Unhashable == "<list>"    \* a JSON array or object used as `method`

\* the keys of `params` the modelled handlers and skills read
NoParams == [name |-> Absent, category |-> Absent, code |-> Absent,
             version |-> Absent, x |-> Absent]

\* the skill names that occur as dynamic skills
DynamicNames == {"echo", "create_object"}

\* the bodies a dynamic skill's `code` can have
\*   copy       result = params
\*   noresult   pass
\*   raise      raise ValueError("boom")
\*   raise_empty assert False           (str(e) is "")
\*   nonserial  result = {1, 2}        (a set: json.dumps rejects it)
Codes == {"copy", "noresult", "raise", "raise_empty", "nonserial"}

Categories == {"simple", "standard", "inspect", "primitive"}

\* the static handler table, BlenderAgentServer.handlers: the registry
\* methods, one ordinary handler and the compound handler with the handler
\* it calls through call_handler
handlers == {"create_object", "render_image", "render_product_views",
             "register_skill", "unregister_skill", "get_skill_statistics"}

CALLER_NAME == "render_product_views"

StatNames == handlers \cup DynamicNames

\* ------------------------------------------------------------------------
\* The persistent store (dynamic_skills.db): three tables
\* ------------------------------------------------------------------------
NoSkill == [exists |-> FALSE, category |-> Absent, code |-> Absent,
            version |-> Absent, call_count |-> 0]

NoRow == [exists |-> FALSE, is_core |-> FALSE, direct_calls |-> 0,
          indirect_calls |-> 0, total_time_ms |-> 0]

\* init_db: CREATE TABLE IF NOT EXISTS leaves existing rows alone
EmptySkills == [n \in DynamicNames |-> NoSkill]
EmptyStats == [n \in StatNames |-> NoRow]
EmptyGraph == [e \in StatNames \X StatNames |-> 0]

\* register_core_handlers with INSERT OR REPLACE: every row starts again
register_core_handlers_replacing(st, names) ==
    [n \in StatNames |->
        IF n \in names
        THEN [exists |-> TRUE, is_core |-> TRUE, direct_calls |-> 0,
              indirect_calls |-> 0, total_time_ms |-> 0]
        ELSE st[n]]

\* register_core_handlers: INSERT OR IGNORE one is_core row per handler
register_core_handlers(st, names) ==
    [n \in StatNames |->
        IF n \in names /\ ~st[n].exists
        THEN [exists |-> TRUE, is_core |-> TRUE, direct_calls |-> 0,
              indirect_calls |-> 0, total_time_ms |-> 0]
        ELSE st[n]]

\* the INSERT ... ON CONFLICT(name) DO UPDATE of skill_statistics
UpsertStats(st, name, core, direct, indirect, elapsed_ms) ==
    [st EXCEPT ![name] =
        IF st[name].exists
        THEN [@ EXCEPT !.direct_calls = @ + direct,
                       !.indirect_calls = @ + indirect,
                       !.total_time_ms = @ + elapsed_ms]
        ELSE [exists |-> TRUE, is_core |-> core, direct_calls |-> direct,
              indirect_calls |-> indirect, total_time_ms |-> elapsed_ms]]

\* track_core_handler_call that leaves the registry's own query out
track_core_handler_call_skips_query(st, name, elapsed_ms) ==
    IF name = "get_skill_statistics" THEN st
    ELSE UpsertStats(st, name, TRUE, 1, 0, elapsed_ms)

\* track_core_handler_call that counts the call and drops the time
track_core_handler_call_drops_time(st, name, elapsed_ms) ==
    UpsertStats(st, name, TRUE, 1, 0, 0)

\* track_core_handler_call(name, elapsed_ms)
track_core_handler_call(st, name, elapsed_ms) ==
    UpsertStats(st, name, TRUE, 1, 0, elapsed_ms)

\* the INSERT ... ON CONFLICT(caller, callee) DO UPDATE of skill_call_graph
UpsertEdge(g, caller, callee) ==
    [g EXCEPT ![<<caller, callee>>] = @ + 1]

\* get_dynamic_skill that never misses: a row is returned for every name
get_dynamic_skill_never_none(sk, name) ==
    IF name \in DynamicNames THEN [sk[name] EXCEPT !.exists = TRUE]
    ELSE [NoSkill EXCEPT !.exists = TRUE]

\* get_dynamic_skill(name): the row, or None
get_dynamic_skill(sk, name) ==
    IF name \in DynamicNames /\ sk[name].exists THEN sk[name] ELSE NoSkill

\* ------------------------------------------------------------------------
\* Values a handler can return and a response can carry
\* ------------------------------------------------------------------------
Val(tag) == [t |-> tag, p |-> NoParams, rows |-> EmptyStats]
NoneValue == Val("None")
SuccessMarker == Val("success")           \* {"success": True}
NonSerializable == Val("set")             \* a value json.dumps rejects
ParamsValue(p) == [t |-> "params", p |-> p, rows |-> EmptyStats]
StatsValue(st) == [t |-> "statistics", p |-> NoParams, rows |-> st]

\* json.dumps(response): raises TypeError on a value that is not JSON
Serializable(v) == v.t # "set"

\* ------------------------------------------------------------------------
\* Response envelopes built by _process_request
\* ------------------------------------------------------------------------
\* an error envelope that also carries a `result` member
ErrorResponse_with_result(id, code, message) ==
    [id |-> id, has_result |-> TRUE, result |-> NoneValue,
     has_error |-> TRUE, code |-> code, message |-> message]

ErrorResponse(id, code, message) ==
    [id |-> id, has_result |-> FALSE, result |-> NoneValue,
     has_error |-> TRUE, code |-> code, message |-> message]

ResultResponse(id, result) ==
    [id |-> id, has_result |-> TRUE, result |-> result,
     has_error |-> FALSE, code |-> 0, message |-> ""]

\* ------------------------------------------------------------------------
\* Request lines: what json.loads makes of one line of the buffer
\*   malformed  json.loads raises JSONDecodeError
\*   nonobject  a JSON number, string, array, true/false/null
\*   blank      empty or whitespace only (line.strip() is falsy)
\*   object     a JSON object; id/method/params are its members or Absent
\* ------------------------------------------------------------------------
Line(kind, id, method, params) ==
    [kind |-> kind, id |-> id, method |-> method, params |-> params]

MalformedLine == Line("malformed", Absent, Absent, NoParams)
NonObjectLine == Line("nonobject", Absent, Absent, NoParams)
BlankLine == Line("blank", Absent, Absent, NoParams)
Request(id, method, params) == Line("object", id, method, params)

RegisterParams(code) == [NoParams EXCEPT !.name = "echo", !.code = code]
NameParams == [NoParams EXCEPT !.name = "echo"]
XParams == [NoParams EXCEPT !.x = "1"]

\* The sessions a client runs: each draws its lines from one family.
\*   framing   lines _process_request answers itself, and one it dispatches
\*   bridge    an ordinary handler and a dynamic skill
\*   registry  the registry methods and a dynamic skill
\*   compound  the compound handler and the statistics query
\*   validation  register_skill requests the registry rejects
\*   shadow    a skill registered under the name of a static handler
Profiles == {"framing", "bridge", "registry", "compound", "validation",
             "shadow"}

\* the lines a client of the profile sends
RequestLines(profile) ==
    CASE profile = "framing" ->
           {MalformedLine, NonObjectLine, BlankLine,
            Request("a", Absent, NoParams), Request(Absent, Absent, NoParams),
            Request("a", Unhashable, NoParams), Request("a", "nosuch", NoParams),
            Request("b", "create_object", XParams)}
      [] profile = "bridge" ->
           {Request("a", "create_object", XParams),
            Request("b", "echo", XParams),
            Request(Absent, "echo", XParams)}
      [] profile = "registry" ->
           {Request("a", "get_skill_statistics", NoParams),
            Request("a", "register_skill",
                    [RegisterParams("copy") EXCEPT !.version = "2.0.0"]),
            Request("a", "unregister_skill", NameParams),
            Request("b", "echo", XParams)}
      [] profile = "compound" ->
           {Request("a", "render_product_views", NoParams),
            Request("b", "get_skill_statistics",
                    [NoParams EXCEPT !.name = "render_image"])}
      [] profile = "shadow" ->
           {Request("a", "register_skill",
                    [RegisterParams("copy") EXCEPT !.name = "create_object"]),
            Request("b", "create_object", XParams)}
      [] OTHER ->
           {Request("a", "register_skill",
                    [RegisterParams("noresult") EXCEPT !.name = Absent]),
            Request("a", "register_skill",
                    [RegisterParams("noresult") EXCEPT !.name = ""]),
            Request("a", "register_skill", RegisterParams(Absent)),
            Request("a", "register_skill", RegisterParams("")),
            Request("b", "register_skill",
                    [RegisterParams("noresult") EXCEPT !.category = "bogus"])}

\* the code of the skill "echo" an earlier session may have left in the
\* store (Absent: no skill is registered)
StoredCodes(profile) ==
    CASE profile = "framing" -> {Absent}
      [] profile = "bridge" -> Codes
      [] profile = "registry" -> {Absent, "copy"}
      [] profile = "compound" -> {Absent}
      [] profile = "shadow" -> {Absent}
      [] OTHER -> {Absent, "copy"}

\* request.get("id"): the member, or None
get_id(line) == IF line.id = Absent THEN None ELSE line.id

\* ------------------------------------------------------------------------
\* Handlers. Each yields what the call did: whether it raised and with
\* what str(e), the value it returned, and the store it left behind.
\* ------------------------------------------------------------------------
Returned(value, sk, st, g) ==
    [raised |-> FALSE, message |-> "", value |-> value,
     skills |-> sk, stats |-> st, graph |-> g]

Raised(message, sk, st, g) ==
    [raised |-> TRUE, message |-> message, value |-> NoneValue,
     skills |-> sk, stats |-> st, graph |-> g]

\* what the host application lets an ordinary handler do: return its
\* dict, or raise (ValueError(f"Unknown object type: ..."), an operator
\* failure, ...)
Outcomes == {"ok", "raise"}

\* a handler of the scene/mesh/render families: (params) -> dict, or raises
OpaqueHandler(outcome, sk, st, g) ==
    IF outcome = "ok" THEN Returned(Val("dict"), sk, st, g)
    ELSE Raised("boom", sk, st, g)

\* handle_register_skill with a plain INSERT OR REPLACE: the counter of
\* the replaced row is lost
handle_register_skill_resets_count(params, sk, st, g) ==
    LET name == params.name
        category == IF params.category = Absent THEN "standard"
                    ELSE params.category
        version == IF params.version = Absent THEN "1.0.0"
                   ELSE params.version
    IN  IF name \in {Absent, ""} THEN Raised("Skill name is required", sk, st, g)
        ELSE IF params.code \in {Absent, ""}
        THEN Raised("Skill code is required", sk, st, g)
        ELSE IF category \notin Categories
        THEN Raised("Invalid category", sk, st, g)
        ELSE Returned(
               [t |-> "registered",
                p |-> [NoParams EXCEPT !.name = name, !.category = category,
                                       !.version = version],
                rows |-> EmptyStats],
               [sk EXCEPT ![name] =
                   [exists |-> TRUE, category |-> category,
                    code |-> params.code, version |-> version,
                    call_count |-> 0]],
               st, g)

\* handle_register_skill without the check of the category
handle_register_skill_any_category(params, sk, st, g) ==
    LET name == params.name
        category == IF params.category = Absent THEN "standard"
                    ELSE params.category
        version == IF params.version = Absent THEN "1.0.0"
                   ELSE params.version
    IN  IF name \in {Absent, ""} THEN Raised("Skill name is required", sk, st, g)
        ELSE IF params.code \in {Absent, ""}
        THEN Raised("Skill code is required", sk, st, g)
        ELSE Returned(
               [t |-> "registered",
                p |-> [NoParams EXCEPT !.name = name, !.category = category,
                                       !.version = version],
                rows |-> EmptyStats],
               [sk EXCEPT ![name] =
                   [exists |-> TRUE, category |-> category,
                    code |-> params.code, version |-> version,
                    call_count |-> IF sk[name].exists
                                   THEN sk[name].call_count ELSE 0]],
               st, g)

\* handle_register_skill
handle_register_skill(params, sk, st, g) ==
    LET name == params.name
        category == IF params.category = Absent THEN "standard"
                    ELSE params.category
        version == IF params.version = Absent THEN "1.0.0"
                   ELSE params.version
    IN  IF name \in {Absent, ""} THEN Raised("Skill name is required", sk, st, g)
        ELSE IF params.code \in {Absent, ""}
        THEN Raised("Skill code is required", sk, st, g)
        ELSE IF category \notin Categories
        THEN Raised("Invalid category", sk, st, g)
        ELSE Returned(
               [t |-> "registered",
                p |-> [NoParams EXCEPT !.name = name, !.category = category,
                                       !.version = version],
                rows |-> EmptyStats],
               [sk EXCEPT ![name] =
                   [exists |-> TRUE, category |-> category,
                    code |-> params.code, version |-> version,
                    call_count |-> IF sk[name].exists
                                   THEN sk[name].call_count ELSE 0]],
               st, g)

\* handle_unregister_skill that does not look at the DELETE's rowcount
handle_unregister_skill_silent(params, sk, st, g) ==
    LET name == params.name
    IN  IF name \in {Absent, ""} THEN Raised("Skill name is required", sk, st, g)
        ELSE Returned(
               [t |-> "unregistered", p |-> [NoParams EXCEPT !.name = name],
                rows |-> EmptyStats],
               IF name \in DynamicNames
               THEN [sk EXCEPT ![name] = NoSkill] ELSE sk, st, g)

\* handle_unregister_skill that deletes the statistics of the skill with
\* the skill
handle_unregister_skill_drops_statistics(params, sk, st, g) ==
    LET name == params.name
    IN  IF name \in {Absent, ""} THEN Raised("Skill name is required", sk, st, g)
        ELSE IF ~(name \in DynamicNames /\ sk[name].exists)
        THEN Raised("Skill not found", sk, st, g)
        ELSE Returned(
               [t |-> "unregistered", p |-> [NoParams EXCEPT !.name = name],
                rows |-> EmptyStats],
               [sk EXCEPT ![name] = NoSkill],
               [st EXCEPT ![name] = NoRow], g)

\* handle_unregister_skill that deletes the edges of the skill with the
\* skill
handle_unregister_skill_drops_edges(params, sk, st, g) ==
    LET name == params.name
    IN  IF name \in {Absent, ""} THEN Raised("Skill name is required", sk, st, g)
        ELSE IF ~(name \in DynamicNames /\ sk[name].exists)
        THEN Raised("Skill not found", sk, st, g)
        ELSE Returned(
               [t |-> "unregistered", p |-> [NoParams EXCEPT !.name = name],
                rows |-> EmptyStats],
               [sk EXCEPT ![name] = NoSkill], st,
               [e \in DOMAIN g |-> IF name \in {e[1], e[2]} THEN 0
                                   ELSE g[e]])

\* handle_unregister_skill
handle_unregister_skill(params, sk, st, g) ==
    LET name == params.name
    IN  IF name \in {Absent, ""} THEN Raised("Skill name is required", sk, st, g)
        ELSE IF ~(name \in DynamicNames /\ sk[name].exists)
        THEN Raised("Skill not found", sk, st, g)
        ELSE Returned(
               [t |-> "unregistered", p |-> [NoParams EXCEPT !.name = name],
                rows |-> EmptyStats],
               [sk EXCEPT ![name] = NoSkill], st, g)

\* handle_get_skill_statistics: the rows of skill_statistics, all of them
\* or the one named by params["name"]
handle_get_skill_statistics(params, sk, st, g) ==
    Returned(
      StatsValue([n \in StatNames |->
                    IF params.name \in {Absent, ""} \/ params.name = n
                    THEN st[n] ELSE NoRow]),
      sk, st, g)

\* the params of get_call_graph
CallGraphParams(caller, callee) == [caller |-> caller, callee |-> callee]

\* handle_get_call_graph: the rows of skill_call_graph that pass the
\* caller and callee filters (`if caller_filter:`, `if callee_filter:`),
\* each with its call_count, and their number
handle_get_call_graph(params, sk, st, g) ==
    LET caller_filter == params.caller
        callee_filter == params.callee
        rows == {e \in DOMAIN g :
                   /\ g[e] > 0
                   /\ caller_filter \in {Absent, None, ""}
                        \/ e[1] = caller_filter
                   /\ callee_filter \in {Absent, None, ""}
                        \/ e[2] = callee_filter}
    IN  Returned([t |-> "edges", count |-> Cardinality(rows),
                  edges |-> [e \in rows |-> g[e]]],
                 sk, st, g)

\* track_indirect_handler_call(name, caller, elapsed_ms)
track_indirect_handler_call(st, g, name, caller, elapsed_ms) ==
    [stats |-> UpsertStats(st, name, TRUE, 0, 1, elapsed_ms),
     graph |-> UpsertEdge(g, caller, name)]

\* handle_render_product_views: `done` nested call_handler("render_image",
\* ..., caller=CALLER_NAME) calls returned (each tracked by call_handler),
\* then the handler returned, or it or its next nested call raised
handle_render_product_views(outcome, done, elapsed_ms, sk, st, g) ==
    LET RECURSIVE Nested(_, _)
        Nested(k, s) ==
            IF k = 0 THEN s
            ELSE Nested(k - 1,
                   track_indirect_handler_call(s.stats, s.graph,
                       "render_image", CALLER_NAME, elapsed_ms))
        after == Nested(done, [stats |-> st, graph |-> g])
    IN  OpaqueHandler(outcome, sk, after.stats, after.graph)

\* execute_dynamic_skill that books the wire call as an indirect one
execute_dynamic_skill_as_indirect(name, skill, params, elapsed_ms, sk, st, g) ==
    IF skill.code = "raise" THEN Raised("boom", sk, st, g)
    ELSE IF skill.code = "raise_empty" THEN Raised("", sk, st, g)
    ELSE LET bound == CASE skill.code = "copy" -> ParamsValue(params)
                        [] skill.code = "nonserial" -> NonSerializable
                        [] OTHER -> NoneValue
             result == IF bound = NoneValue THEN SuccessMarker ELSE bound
         IN  Returned(result,
                      [sk EXCEPT ![name] =
                          IF @.exists
                          THEN [@ EXCEPT !.call_count = @ + 1] ELSE @],
                      UpsertStats(st, name, FALSE, 0, 1, elapsed_ms),
                      g)

\* execute_dynamic_skill(skill, params, caller=None)
execute_dynamic_skill(name, skill, params, elapsed_ms, sk, st, g) ==
    IF skill.code = "raise" THEN Raised("boom", sk, st, g)
    ELSE IF skill.code = "raise_empty" THEN Raised("", sk, st, g)
    ELSE LET bound == CASE skill.code = "copy" -> ParamsValue(params)
                        [] skill.code = "nonserial" -> NonSerializable
                        [] OTHER -> NoneValue
             result == IF bound = NoneValue THEN SuccessMarker ELSE bound
         IN  Returned(result,
                      [sk EXCEPT ![name] =
                          IF @.exists
                          THEN [@ EXCEPT !.call_count = @ + 1] ELSE @],
                      UpsertStats(st, name, FALSE, 1, 0, elapsed_ms),
                      g)

\* ------------------------------------------------------------------------
\* State
\* ------------------------------------------------------------------------
VARIABLES
    profile,          \* the family of lines this run's clients send
    pc,               \* network thread: "accept", "recv", "lines", "wait"
    buffer,           \* complete lines of `buffer` not yet processed
    reqs,             \* lines _process_request was called on, this connection
    response,         \* what the last _process_request call returned
    out,              \* response lines written, this connection
    nSent,            \* request lines sent by clients so far
    nTimeouts,        \* waits that timed out so far
    nCalls,           \* _process_request calls so far (names the request)
    cur,              \* result_container, error_container, done_event of
                      \* the request the network thread is waiting on
    timers,           \* bpy.app.timers: registered tasks, in order
    finishing,        \* request whose task ran and has yet to set done_event
    skills,           \* table dynamic_skills
    stats,            \* table skill_statistics
    call_graph,       \* table skill_call_graph
    invocations,      \* handler bodies run so far: request and thread
    last_run,         \* the latest run of a handler body: what it was given
                      \* and how it ended
    running,          \* self.running
    thread,           \* self.thread: the thread start() created last, or 0
    socket,           \* self.socket: the listener created last, or 0
    listeners,        \* the listening sockets _run_server created: state
    tpc,              \* where each accept thread stands in _run_server
    client,           \* the client socket each accept thread has open, or 0
    joining,          \* stop() is in self.thread.join(timeout=1.0)
    nClients,         \* client connections accepted so far
    nStarts,          \* start() calls so far
    nStops,           \* stop() calls so far
    conn,             \* the sqlite3 connection of the store operation under
                      \* way: the statements left and the tables as it sees
                      \* them, uncommitted
    answer,           \* what the last read-only store operation returned
    nOps,             \* store operations begun so far
    response_data,    \* client: the response object json.loads returned
    blender_response, \* client: the BlenderResponse made of it
    sent,             \* client: how send_request ended
    invoked,          \* the last call of a function of the handlers package
                      \* made directly: its arguments and how it ended
    stream,           \* framing: the bytes the peer sends on the connection
    wire,             \* framing: those of them recv() has yet to return
    text,             \* framing: `buffer` of _handle_client
    dispatched,       \* framing: the lines passed to _process_request
    link,             \* framing: "open", "closed" (peer closed), "error"
    nSendRequest,     \* exchange: send_request calls begun on the client
    awaiting,         \* exchange: the call is in readline()
    unanswered,       \* exchange: requests the add-on has yet to answer
    unread,           \* exchange: response lines the client has yet to read
    delivered         \* exchange: how the last send_request call ended

vars == <<profile, pc, buffer, reqs, response, out, nSent, nTimeouts, nCalls, cur, timers, finishing,
          skills, stats, call_graph, invocations, last_run,
          running, thread, socket, listeners, tpc, client, joining,
          nClients, nStarts, nStops, conn, answer, nOps,
          response_data, blender_response, sent, invoked,
          stream, wire, text, dispatched, link,
          nSendRequest, awaiting, unanswered, unread, delivered>>

\* the state of the request loop, the bridge and the store
bridge == <<profile, pc, buffer, reqs, response, out, nSent, nTimeouts,
            nCalls, cur, timers, finishing, skills, stats, call_graph,
            invocations, last_run>>

\* the state of BlenderAgentServer's life cycle: start(), stop() and the
\* accept threads
server == <<running, thread, socket, listeners, tpc, client, joining,
            nClients, nStarts, nStops>>

\* the state of the store operation under way
session == <<conn, answer, nOps>>

\* the state of the client, BlenderClient.send_request
peer == <<response_data, blender_response, sent>>

\* the functions of the handlers package called directly
apicall == <<invoked>>

\* the framing of one connection, byte by byte
reader == <<stream, wire, text, dispatched, link>>

\* the client's calls and the lines in flight
exchange == <<nSendRequest, awaiting, unanswered, unread, delivered>>

\* the request loop and the bridge without the store
volatile == <<profile, pc, buffer, reqs, response, out, nSent, nTimeouts,
              nCalls, cur, timers, finishing, invocations, last_run>>

store == <<skills, stats, call_graph>>

NoCur == [serial |-> 0, id |-> None, result_container |-> NoneValue,
          error_container |-> None, done_event |-> FALSE]

\* one registered execute_in_main closure: what it captured
Task(serial, method, skill, params) ==
    [serial |-> serial, method |-> method, dynamic_skill |-> skill,
     params |-> params]

\* what is known of one run of the try block of execute_in_main: the
\* task, whether it raised, the elapsed_ms it measured (a run that raises
\* never gets to measure it), the call_handler calls the handler made
Run(task, raised, elapsed_ms, calls) ==
    [serial |-> task.serial, method |-> task.method, raised |-> raised,
     elapsed_ms |-> IF raised THEN 0 ELSE elapsed_ms, calls |-> calls]

NoRun == [serial |-> 0, method |-> Absent, raised |-> FALSE,
          elapsed_ms |-> 0, calls |-> 0]

\* no store operation under way: no connection is open
NoConn == [open |-> FALSE, crashed |-> FALSE, op |-> "none",
           done |-> <<>>, todo |-> <<>>,
           skills |-> EmptySkills, stats |-> EmptyStats,
           graph |-> EmptyGraph]

\* nothing has been read from the store yet
NoAnswer == [t |-> "none", asked |-> [category |-> Absent,
                                      include_code |-> Absent],
             entries |-> {}, count |-> 0, rows |-> EmptyStats]

\* the `error` member of a response object as json.loads returns it: not
\* there, null, a string, or an object whose code and message may be
\* missing
AbsentMember == [kind |-> "absent", code |-> Absent, message |-> Absent]
NullMember == [kind |-> "null", code |-> Absent, message |-> Absent]
TextMember == [kind |-> "str", code |-> Absent, message |-> Absent]
ErrorObject(code, message) ==
    [kind |-> "dict", code |-> code, message |-> message]

\* the client has received nothing, built no BlenderResponse, and
\* send_request has not ended
NoData == [id |-> Absent, result |-> Absent, error |-> AbsentMember]
NoReceived == [id |-> Absent, result |-> Absent, error |-> AbsentMember]
NoOutcome == [kind |-> "none", exception |-> Absent, code |-> Absent,
              message |-> Absent, value |-> Absent]

\* no function has been called directly
NoCall == [fn |-> "none", name |-> Absent, caller |-> None, code |-> Absent,
           raised |-> FALSE, value |-> NoneValue, handler_runs |-> 0]

\* send_request has not been called
NoDelivery == [call |-> 0, kind |-> "none", answers |-> 0]

\* nothing of the direct calls, the byte-level framing and the client's
\* exchange is under way
Elsewhere ==
    /\ invoked = NoCall
    /\ stream = <<>> /\ wire = <<>> /\ text = <<>>
    /\ dispatched = <<>> /\ link = "open"
    /\ nSendRequest = 0 /\ awaiting = FALSE
    /\ unanswered = <<>> /\ unread = <<>> /\ delivered = NoDelivery

\* the accept threads start() can create, named in order of creation
Threads == 1..MaxThreads

\* BlenderAgentServer.__init__: no socket, not running, no thread
ServerConstructed ==
    /\ running = FALSE
    /\ thread = 0
    /\ socket = 0
    /\ listeners = [t \in Threads |-> "none"]
    /\ tpc = [t \in Threads |-> "idle"]
    /\ client = [t \in Threads |-> 0]
    /\ joining = FALSE
    /\ nClients = 0
    /\ nStarts = 0
    /\ nStops = 0

\* register(): start() has run once and its thread has bound the listener
\* and stands in accept()
ServerStarted ==
    /\ running = TRUE
    /\ thread = 1
    /\ socket = 1
    /\ listeners = [t \in Threads |-> IF t = 1 THEN "listening" ELSE "none"]
    /\ tpc = [t \in Threads |-> IF t = 1 THEN "accept" ELSE "idle"]
    /\ client = [t \in Threads |-> 0]
    /\ joining = FALSE
    /\ nClients = 0
    /\ nStarts = 1
    /\ nStops = 0

\* The add-on has been registered and start() has run: the handler table
\* is built, register_core_handlers has seeded the statistics, the accept
\* thread is in its loop. The store file outlives the process: a skill
\* registered in an earlier session may be there, not yet called.
Init ==
    /\ Elsewhere
    /\ ServerStarted
    /\ conn = NoConn /\ answer = NoAnswer /\ nOps = 0
    /\ response_data = NoData /\ blender_response = NoReceived
    /\ sent = NoOutcome
    /\ profile \in Profiles
    /\ pc = "accept"
    /\ buffer = <<>>
    /\ reqs = <<>>
    /\ response = ResultResponse(None, NoneValue)
    /\ out = <<>>
    /\ nSent = 0
    /\ nCalls = 0
    /\ nTimeouts = 0
    /\ cur = NoCur
    /\ timers = <<>>
    /\ finishing = 0
    /\ \E c \in StoredCodes(profile) :
         skills = IF c = Absent THEN EmptySkills
                  ELSE [EmptySkills EXCEPT !["echo"] =
                          [exists |-> TRUE, category |-> "standard",
                           code |-> c, version |-> "1.0.0",
                           call_count |-> 0]]
    /\ stats = register_core_handlers(EmptyStats, handlers)
    /\ call_graph = EmptyGraph
    /\ invocations = <<>>
    /\ last_run = NoRun

\* ------------------------------------------------------------------------
\* What a registered task does when it runs
\* ------------------------------------------------------------------------
\* execute_in_main that looks the method up in the skill registry before
\* the handler table
RunTask_registry_first(task, outcome, done, elapsed_ms, sk, st, g) ==
    IF get_dynamic_skill(sk, task.method).exists
    THEN execute_dynamic_skill(task.method,
                               get_dynamic_skill(sk, task.method),
                               task.params, elapsed_ms, sk, st, g)
    ELSE IF task.method \in handlers
    THEN LET r == CASE task.method = "register_skill" ->
                         handle_register_skill(task.params, sk, st, g)
                    [] task.method = "unregister_skill" ->
                         handle_unregister_skill(task.params, sk, st, g)
                    [] task.method = "get_skill_statistics" ->
                         handle_get_skill_statistics(task.params, sk, st, g)
                    [] task.method = "render_product_views" ->
                         handle_render_product_views(outcome, done,
                                                     elapsed_ms, sk, st, g)
                    [] OTHER -> OpaqueHandler(outcome, sk, st, g)
         IN  IF r.raised THEN r
             ELSE [r EXCEPT !.stats =
                      track_core_handler_call(r.stats, task.method,
                                              elapsed_ms)]
    ELSE Raised("boom", sk, st, g)

\* the body of the try block of execute_in_main
RunTask(task, outcome, done, elapsed_ms, sk, st, g) ==
    IF task.method \in handlers
    THEN LET r == CASE task.method = "register_skill" ->
                         handle_register_skill(task.params, sk, st, g)
                    [] task.method = "unregister_skill" ->
                         handle_unregister_skill(task.params, sk, st, g)
                    [] task.method = "get_skill_statistics" ->
                         handle_get_skill_statistics(task.params, sk, st, g)
                    [] task.method = "render_product_views" ->
                         handle_render_product_views(outcome, done,
                                                     elapsed_ms, sk, st, g)
                    [] OTHER -> OpaqueHandler(outcome, sk, st, g)
         IN  IF r.raised THEN r
             ELSE [r EXCEPT !.stats =
                      track_core_handler_call(r.stats, task.method,
                                              elapsed_ms)]
    ELSE execute_dynamic_skill(task.method, task.dynamic_skill, task.params,
                               elapsed_ms, sk, st, g)

\* int((time.time() - start_time) * 1000): under a millisecond, or more
Elapsed == {0, MaxElapsed}

\* the thread a registered timer function runs on
TimerThread == "main"

\* the nondeterminism a task is run under: only the handlers that depend
\* on the host's state have more than one outcome; the compound handler
\* can also end in a call_handler call whose handler raises
OutcomesOf(task) ==
    IF task.method = "render_product_views"
    THEN Outcomes \cup {"raise_nested"}
    ELSE IF task.method \in {"create_object", "render_image"}
    THEN Outcomes ELSE {"ok"}

NestedOf(task) ==
    IF task.method = "render_product_views" THEN 0..MaxNested ELSE {0}

\* the call_handler("render_image", ..., caller=CALLER_NAME) calls a run
\* made: the `done` that returned and the one that raised, if one did
CallsMade(task, outcome, done) ==
    IF task.method # "render_product_views" THEN 0
    ELSE IF outcome = "raise_nested" THEN done + 1 ELSE done

\* ------------------------------------------------------------------------
\* Network thread
\* ------------------------------------------------------------------------
\* _run_server: accept() returned a client; _handle_client starts
Accept ==
    /\ pc = "accept"
    /\ pc' = "recv"
    /\ buffer' = <<>>
    /\ reqs' = <<>>
    /\ out' = <<>>
    /\ UNCHANGED <<profile, response, nSent, nTimeouts, nCalls, cur, timers,
                     finishing, store, invocations, last_run, server, session, peer,
                   apicall, reader, exchange>>

Batches == UNION {[1..n -> RequestLines(profile)] : n \in 1..MaxBatch}

\* where the per-connection loop stands once a line is dealt with
AfterLine(buf) == IF buf = <<>> THEN "recv" ELSE "lines"

\* _handle_client: recv() returned data holding the complete lines `batch`
Recv(batch) ==
    /\ pc = "recv"
    /\ nSent + Len(batch) <= MaxRequests
    /\ nSent' = nSent + Len(batch)
    /\ buffer' = batch
    /\ pc' = "lines"
    /\ UNCHANGED <<profile, reqs, response, out, nTimeouts, nCalls, cur,
                     timers, finishing, store, invocations, last_run, server, session, peer,
                   apicall, reader, exchange>>

\* _handle_client: recv() returned b"" (peer closed) or raised; the
\* finally clause closes the client and _run_server accepts again
RecvClosed ==
    /\ pc = "recv"
    /\ pc' = "accept"
    /\ UNCHANGED <<profile, buffer, reqs, response, out, nSent, nTimeouts,
                     nCalls, cur, timers, finishing, store, invocations, last_run, server, session, peer,
                   apicall, reader, exchange>>

NoTask == Task(0, Absent, NoSkill, NoParams)

\* parse_error_response with the JSONDecodeError clause lost: the line
\* falls into the catch-all clause
parse_error_response_catch_all ==
    ErrorResponse(None, INTERNAL_ERROR, "Parse error")

\* except json.JSONDecodeError: the Parse error envelope
parse_error_response ==
    ErrorResponse(None, PARSE_ERROR, "Parse error")

\* except Exception as e: the catch-all envelope of _process_request
generic_error_response(message) ==
    ErrorResponse(None, INTERNAL_ERROR, message)

\* the envelope returned when "method" is not in the request
invalid_request_response(line) ==
    ErrorResponse(get_id(line), INVALID_REQUEST, "Invalid request")

\* the envelope returned when neither lookup finds the method
method_not_found_response(line) ==
    ErrorResponse(get_id(line), METHOD_NOT_FOUND, "Method not found")

\* handler = self.handlers.get(method), then get_dynamic_skill(method) on
\* a miss: does either lookup find something to run
resolves(method, sk) ==
    method \in handlers \/ get_dynamic_skill(sk, method).exists

\* _process_request up to its first return or to the registration of the
\* task: the response to return now, or the task to register
process_request(line, sk, serial) ==
    IF line.kind = "malformed"
    THEN [respond |-> TRUE, response |-> parse_error_response,
          task |-> NoTask]
    ELSE IF line.kind = "nonobject"
    THEN \* `"method" not in request` or request.get raises TypeError or
         \* AttributeError on a value that is not a dict
         [respond |-> TRUE, response |-> generic_error_response("TypeError"),
          task |-> NoTask]
    ELSE IF line.method = Absent
    THEN [respond |-> TRUE, response |-> invalid_request_response(line),
          task |-> NoTask]
    ELSE IF line.method = Unhashable
    THEN \* self.handlers.get(method) raises TypeError: unhashable type
         [respond |-> TRUE, response |-> generic_error_response("TypeError"),
          task |-> NoTask]
    ELSE IF ~resolves(line.method, sk)
    THEN [respond |-> TRUE, response |-> method_not_found_response(line),
          task |-> NoTask]
    ELSE [respond |-> FALSE, response |-> ResultResponse(None, NoneValue),
          task |-> Task(serial, line.method,
                        IF line.method \in handlers THEN NoSkill
                        ELSE get_dynamic_skill(sk, line.method),
                        line.params)]

\* timers.register that leaves the function registered for a second run
timers_register_twice(q, task) == Append(Append(q, task), task)

\* bpy.app.timers.register(execute_in_main, first_interval=0)
timers_register(q, task) == Append(q, task)

\* client.sendall((json.dumps(response) + "\n").encode("utf-8")): the line
\* is written, or json.dumps raises and _handle_client closes the client
SendResponse(resp, rest) ==
    /\ response' = resp
    /\ IF Serializable(resp.result)
       THEN /\ out' = Append(out, resp)
            /\ pc' = AfterLine(rest)
       ELSE /\ out' = out
            /\ pc' = "accept"

\* _handle_client: the inner loop skips a blank line
SkipBlank ==
    /\ pc = "lines"
    /\ Head(buffer).kind = "blank"
    /\ buffer' = Tail(buffer)
    /\ pc' = AfterLine(buffer')
    /\ UNCHANGED <<profile, reqs, response, out, nSent, nTimeouts, nCalls,
                     cur, timers, finishing, store, invocations, last_run, server, session, peer,
                   apicall, reader, exchange>>

\* _handle_client: the next line is split off and _process_request
\* returns without dispatching
Reject ==
    /\ pc = "lines"
    /\ Head(buffer).kind # "blank"
    /\ LET r == process_request(Head(buffer), skills, nCalls + 1)
       IN  /\ r.respond
           /\ buffer' = Tail(buffer)
           /\ reqs' = Append(reqs, Head(buffer))
           /\ nCalls' = nCalls + 1
           /\ SendResponse(r.response, Tail(buffer))
    /\ UNCHANGED <<profile, nSent, nTimeouts, cur, timers, finishing, store,
                     invocations, last_run, server, session, peer,
                   apicall, reader, exchange>>

\* Dispatch with the handler called where it was resolved, on the network
\* thread, instead of being registered as a timer
Dispatch_inline ==
    /\ pc = "lines"
    /\ Head(buffer).kind # "blank"
    /\ LET r == process_request(Head(buffer), skills, nCalls + 1)
       IN  /\ ~r.respond
           /\ buffer' = Tail(buffer)
           /\ reqs' = Append(reqs, Head(buffer))
           /\ nCalls' = nCalls + 1
           /\ \E outcome \in OutcomesOf(r.task), done \in NestedOf(r.task),
                 elapsed_ms \in Elapsed :
                LET x == RunTask(r.task, outcome, done, elapsed_ms,
                                 skills, stats, call_graph)
                IN  /\ skills' = x.skills
                    /\ stats' = x.stats
                    /\ call_graph' = x.graph
                    /\ cur' = [serial |-> nCalls + 1,
                               id |-> get_id(Head(buffer)),
                               result_container |-> x.value,
                               error_container |->
                                   IF x.raised THEN x.message ELSE None,
                               done_event |-> TRUE]
                    /\ invocations' = Append(invocations,
                           [serial |-> nCalls + 1, thread |-> "network",
                            late |-> FALSE])
                    /\ last_run' = Run(r.task, x.raised, elapsed_ms,
                                       CallsMade(r.task, outcome, done))
           /\ pc' = "wait"
    /\ UNCHANGED <<profile, response, out, nSent, nTimeouts, timers,
                   finishing, server, session, peer,
                   apicall, reader, exchange>>

\* _handle_client: the next line is split off; _process_request resolves
\* the method, registers execute_in_main and blocks in done_event.wait
Dispatch ==
    /\ pc = "lines"
    /\ Head(buffer).kind # "blank"
    /\ LET r == process_request(Head(buffer), skills, nCalls + 1)
       IN  /\ ~r.respond
           /\ buffer' = Tail(buffer)
           /\ reqs' = Append(reqs, Head(buffer))
           /\ nCalls' = nCalls + 1
           /\ timers' = timers_register(timers, r.task)
           /\ cur' = [NoCur EXCEPT !.serial = nCalls + 1,
                                   !.id = get_id(Head(buffer))]
           /\ pc' = "wait"
    /\ UNCHANGED <<profile, response, out, nSent, nTimeouts, finishing,
                     store, invocations, last_run, server, session, peer,
                   apicall, reader, exchange>>

\* BridgeResponse that looks at what wait() returned and reports a timeout
BridgeResponse_checks_wait(c) ==
    IF ~c.done_event
    THEN ErrorResponse(c.id, INTERNAL_ERROR, "timeout")
    ELSE IF c.error_container \notin {None, ""}
    THEN ErrorResponse(c.id, INTERNAL_ERROR, c.error_container)
    ELSE ResultResponse(c.id, c.result_container)

\* _process_request after done_event.wait(timeout=30.0) has returned
BridgeResponse(c) ==
    IF c.error_container \notin {None, ""}
    THEN ErrorResponse(c.id, INTERNAL_ERROR, c.error_container)
    ELSE ResultResponse(c.id, c.result_container)

\* done_event was set: wait returns, the response is built and written
WaitDone ==
    /\ pc = "wait"
    /\ cur.done_event
    /\ SendResponse(BridgeResponse(cur), buffer)
    /\ cur' = NoCur
    /\ UNCHANGED <<profile, buffer, reqs, nSent, nTimeouts, nCalls, timers,
                     finishing, store, invocations, last_run, server, session, peer,
                   apicall, reader, exchange>>

\* the 30 seconds elapsed with done_event not set: wait returns all the
\* same, the response is built from the containers as they are
WaitTimeout ==
    /\ pc = "wait"
    /\ ~cur.done_event
    /\ nTimeouts < MaxTimeouts
    /\ nTimeouts' = nTimeouts + 1
    /\ SendResponse(BridgeResponse(cur), buffer)
    /\ cur' = NoCur
    /\ UNCHANGED <<profile, buffer, reqs, nSent, nCalls, timers, finishing,
                     store, invocations, last_run, server, session, peer,
                   apicall, reader, exchange>>

\* ------------------------------------------------------------------------
\* Blender's main thread
\* ------------------------------------------------------------------------
\* execute_in_main with result_container and error_container shared by
\* all requests instead of captured by each closure
execute_in_main_shared_slots ==
    /\ timers # <<>>
    /\ finishing = 0
    /\ LET task == Head(timers)
       IN  \E outcome \in OutcomesOf(task), done \in NestedOf(task),
              elapsed_ms \in Elapsed :
             LET r == RunTask(task, outcome, done, elapsed_ms,
                              skills, stats, call_graph)
             IN  /\ skills' = r.skills
                 /\ stats' = r.stats
                 /\ call_graph' = r.graph
                 /\ cur' = IF r.raised
                           THEN [cur EXCEPT !.error_container = r.message]
                           ELSE [cur EXCEPT !.result_container = r.value]
                 /\ invocations' = Append(invocations,
                        [serial |-> task.serial, thread |-> TimerThread,
                         late |-> cur.serial # task.serial])
                 /\ last_run' = Run(task, r.raised, elapsed_ms,
                                    CallsMade(task, outcome, done))
                 /\ finishing' = task.serial
    /\ timers' = Tail(timers)
    /\ UNCHANGED <<profile, pc, buffer, reqs, response, out, nSent,
                     nTimeouts, nCalls, server, session, peer,
                   apicall, reader, exchange>>

\* Blender runs the oldest registered timer: execute_in_main up to, and
\* not including, done_event.set()
execute_in_main ==
    /\ timers # <<>>
    /\ finishing = 0
    /\ LET task == Head(timers)
       IN  \E outcome \in OutcomesOf(task), done \in NestedOf(task),
              elapsed_ms \in Elapsed :
             LET r == RunTask(task, outcome, done, elapsed_ms,
                              skills, stats, call_graph)
             IN  /\ skills' = r.skills
                 /\ stats' = r.stats
                 /\ call_graph' = r.graph
                 /\ cur' = IF cur.serial # task.serial THEN cur
                           ELSE IF r.raised
                           THEN [cur EXCEPT !.error_container = r.message]
                           ELSE [cur EXCEPT !.result_container = r.value]
                 /\ invocations' = Append(invocations,
                        [serial |-> task.serial, thread |-> TimerThread,
                         late |-> cur.serial # task.serial])
                 /\ last_run' = Run(task, r.raised, elapsed_ms,
                                    CallsMade(task, outcome, done))
                 /\ finishing' = task.serial
    /\ timers' = Tail(timers)
    /\ UNCHANGED <<profile, pc, buffer, reqs, response, out, nSent,
                     nTimeouts, nCalls, server, session, peer,
                   apicall, reader, exchange>>

\* execute_in_main: done_event.set(); return None
SetDone ==
    /\ finishing # 0
    /\ cur' = IF cur.serial = finishing
              THEN [cur EXCEPT !.done_event = TRUE] ELSE cur
    /\ finishing' = 0
    /\ UNCHANGED <<profile, pc, buffer, reqs, response, out, nSent,
                     nTimeouts, nCalls, timers, store, invocations, last_run, server, session, peer,
                   apicall, reader, exchange>>

\* recv() returns whatever the client has sent by now
RecvData == \E batch \in Batches : Recv(batch)

Next ==
    \/ Accept
    \/ RecvData
    \/ RecvClosed
    \/ SkipBlank
    \/ Reject
    \/ Dispatch
    \/ WaitDone
    \/ WaitTimeout
    \/ execute_in_main
    \/ SetDone

Spec == Init /\ [][Next]_vars

\* ------------------------------------------------------------------------
\* Life cycle: start(), stop() and the accept threads of _run_server.
\* What a thread does with the lines of a connection is the request loop
\* above; here a connection is only open or closed.
\*
\* tpc[t]:  idle     not created
\*          socket   _run_server entered, socket.socket() not yet called
\*          bind     before bind() and listen()
\*          loop     at `while self.running` of _run_server
\*          accept   in self.socket.accept()
\*          client   at `while self.running` of _handle_client
\*          recv     in client.recv(), or processing the lines it returned
\*          close    at the `finally: client.close()` of _handle_client
\*          finally  at the `finally` of _run_server
\*          done     the thread has ended
\* ------------------------------------------------------------------------
\* start() without the `if self.running: return`
start_unguarded ==
    /\ ~joining
    /\ nStarts < MaxStarts
    /\ nStarts' = nStarts + 1
    /\ \E t \in Threads :
         /\ tpc[t] = "idle"
         /\ \A u \in Threads : u < t => tpc[u] # "idle"
         /\ running' = TRUE
         /\ thread' = t
         /\ tpc' = [tpc EXCEPT ![t] = "socket"]
    /\ UNCHANGED <<socket, listeners, client, joining, nClients, nStops,
                   bridge, session, peer,
                   apicall, reader, exchange>>

\* start(): nothing when running, else a new thread on _run_server
start ==
    /\ ~joining
    /\ nStarts < MaxStarts
    /\ nStarts' = nStarts + 1
    /\ IF running
       THEN UNCHANGED <<running, thread, tpc,
                   apicall, reader, exchange>>
       ELSE \E t \in Threads :
              /\ tpc[t] = "idle"
              /\ \A u \in Threads : u < t => tpc[u] # "idle"
              /\ running' = TRUE
              /\ thread' = t
              /\ tpc' = [tpc EXCEPT ![t] = "socket"]
    /\ UNCHANGED <<socket, listeners, client, joining, nClients, nStops,
                   bridge, session, peer,
                   apicall, reader, exchange>>

\* socket.close() on the listener `s` (0: there is none)
close_listener(ls, s) ==
    IF s = 0 THEN ls ELSE [ls EXCEPT ![s] = "closed"]

\* stop() up to the join: running is cleared, self.socket is closed
stop ==
    /\ ~joining
    /\ nStops < MaxStops
    /\ nStops' = nStops + 1
    /\ running' = FALSE
    /\ listeners' = close_listener(listeners, socket)
    /\ joining' = (thread # 0)
    /\ UNCHANGED <<thread, socket, tpc, client, nClients, nStarts, bridge, session, peer,
                   apicall, reader, exchange>>

\* the calls a thread can stay in for longer than the second join waits:
\* recv() on a client that sends nothing, the 30 second wait of a request
Blocking == {"recv"}

\* stop(): self.thread.join(timeout=1.0) returns, the thread having ended
\* or being held in a blocking call for the whole second
join_returns ==
    /\ joining
    /\ tpc[thread] \in {"done"} \cup Blocking
    /\ joining' = FALSE
    /\ UNCHANGED <<running, thread, socket, listeners, tpc, client,
                   nClients, nStarts, nStops, bridge, session, peer,
                   apicall, reader, exchange>>

\* _run_server: self.socket = socket.socket(...); the listener self.socket
\* referred to before loses its last reference and is closed with it
run_server_socket(t) ==
    /\ tpc[t] = "socket"
    /\ socket' = t
    /\ listeners' = [close_listener(listeners, socket) EXCEPT ![t] = "open"]
    /\ tpc' = [tpc EXCEPT ![t] = "bind"]
    /\ UNCHANGED <<running, thread, client, joining, nClients, nStarts, nStops,
                   bridge, session, peer,
                   apicall, reader, exchange>>

\* _run_server: self.socket.bind(...); self.socket.listen(1). They raise
\* on a socket that was closed or is bound already, which takes the
\* thread to `except Exception` and the finally clause
run_server_bind(t) ==
    /\ tpc[t] = "bind"
    /\ IF listeners[socket] = "open"
       THEN /\ listeners' = [listeners EXCEPT ![socket] = "listening"]
            /\ tpc' = [tpc EXCEPT ![t] = "loop"]
       ELSE /\ listeners' = listeners
            /\ tpc' = [tpc EXCEPT ![t] = "finally"]
    /\ UNCHANGED <<running, thread, socket, client, joining, nClients,
                   nStarts, nStops, bridge, session, peer,
                   apicall, reader, exchange>>

\* _run_server: `while self.running`
run_server_loop(t) ==
    /\ tpc[t] = "loop"
    /\ tpc' = [tpc EXCEPT ![t] = IF running THEN "accept" ELSE "finally"]
    /\ UNCHANGED <<running, thread, socket, listeners, client, joining,
                   nClients, nStarts, nStops, bridge, session, peer,
                   apicall, reader, exchange>>

\* _run_server: self.socket.accept() returns a client; _handle_client
accept_client(t) ==
    /\ tpc[t] = "accept"
    /\ listeners[socket] = "listening"
    /\ nClients < MaxClients
    /\ nClients' = nClients + 1
    /\ client' = [client EXCEPT ![t] = nClients + 1]
    /\ tpc' = [tpc EXCEPT ![t] = "client"]
    /\ UNCHANGED <<running, thread, socket, listeners, joining, nStarts, nStops,
                   bridge, session, peer,
                   apicall, reader, exchange>>

\* _run_server: accept() ends in socket.timeout after a second, or raises
\* on a listener that was closed or never listened: `continue`, or the
\* `except Exception` clause, and the loop goes on
accept_fails(t) ==
    /\ tpc[t] = "accept"
    /\ tpc' = [tpc EXCEPT ![t] = "loop"]
    /\ UNCHANGED <<running, thread, socket, listeners, client, joining,
                   nClients, nStarts, nStops, bridge, session, peer,
                   apicall, reader, exchange>>

\* _handle_client: `while self.running`
handle_client_loop(t) ==
    /\ tpc[t] = "client"
    /\ tpc' = [tpc EXCEPT ![t] = IF running THEN "recv" ELSE "close"]
    /\ UNCHANGED <<running, thread, socket, listeners, client, joining,
                   nClients, nStarts, nStops, bridge, session, peer,
                   apicall, reader, exchange>>

\* _handle_client: recv() returned data and its lines were answered
recv_data(t) ==
    /\ tpc[t] = "recv"
    /\ tpc' = [tpc EXCEPT ![t] = "client"]
    /\ UNCHANGED <<running, thread, socket, listeners, client, joining,
                   nClients, nStarts, nStops, bridge, session, peer,
                   apicall, reader, exchange>>

\* _handle_client: recv() returned b"" and the loop breaks, or recv(),
\* decode(), json.dumps() or sendall() raised into `except Exception`
recv_ends(t) ==
    /\ tpc[t] = "recv"
    /\ tpc' = [tpc EXCEPT ![t] = "close"]
    /\ UNCHANGED <<running, thread, socket, listeners, client, joining,
                   nClients, nStarts, nStops, bridge, session, peer,
                   apicall, reader, exchange>>

\* client_close with the end of a connection taking the accept loop down
client_close_ends_thread(t) ==
    /\ tpc[t] = "close"
    /\ client' = [client EXCEPT ![t] = 0]
    /\ tpc' = [tpc EXCEPT ![t] = "finally"]
    /\ UNCHANGED <<running, thread, socket, listeners, joining, nClients,
                   nStarts, nStops, bridge, session, peer,
                   apicall, reader, exchange>>

\* _handle_client: finally: client.close(); back in the loop of _run_server
client_close(t) ==
    /\ tpc[t] = "close"
    /\ client' = [client EXCEPT ![t] = 0]
    /\ tpc' = [tpc EXCEPT ![t] = "loop"]
    /\ UNCHANGED <<running, thread, socket, listeners, joining, nClients,
                   nStarts, nStops, bridge, session, peer,
                   apicall, reader, exchange>>

\* _run_server: finally: if self.socket: self.socket.close()
run_server_finally(t) ==
    /\ tpc[t] = "finally"
    /\ listeners' = close_listener(listeners, socket)
    /\ tpc' = [tpc EXCEPT ![t] = "done"]
    /\ UNCHANGED <<running, thread, socket, client, joining, nClients,
                   nStarts, nStops, bridge, session, peer,
                   apicall, reader, exchange>>

RunServerSocket == \E t \in Threads : run_server_socket(t)
RunServerBind == \E t \in Threads : run_server_bind(t)
RunServerLoop == \E t \in Threads : run_server_loop(t)
AcceptClient == \E t \in Threads : accept_client(t)
AcceptFails == \E t \in Threads : accept_fails(t)
HandleClientLoop == \E t \in Threads : handle_client_loop(t)
RecvDataIn == \E t \in Threads : recv_data(t)
RecvEnds == \E t \in Threads : recv_ends(t)
ClientClose == \E t \in Threads : client_close(t)
RunServerFinally == \E t \in Threads : run_server_finally(t)

\* the server object as constructed, with no request under way
LifecycleInit ==
    /\ Elsewhere
    /\ ServerConstructed
    /\ conn = NoConn /\ answer = NoAnswer /\ nOps = 0
    /\ response_data = NoData /\ blender_response = NoReceived
    /\ sent = NoOutcome
    /\ profile = "framing"
    /\ pc = "accept"
    /\ buffer = <<>>
    /\ reqs = <<>>
    /\ response = ResultResponse(None, NoneValue)
    /\ out = <<>>
    /\ nSent = 0
    /\ nCalls = 0
    /\ nTimeouts = 0
    /\ cur = NoCur
    /\ timers = <<>>
    /\ finishing = 0
    /\ skills = EmptySkills
    /\ stats = register_core_handlers(EmptyStats, handlers)
    /\ call_graph = EmptyGraph
    /\ invocations = <<>>
    /\ last_run = NoRun

LifecycleNext ==
    \/ start
    \/ stop
    \/ join_returns
    \/ RunServerSocket
    \/ RunServerBind
    \/ RunServerLoop
    \/ AcceptClient
    \/ AcceptFails
    \/ HandleClientLoop
    \/ RecvDataIn
    \/ RecvEnds
    \/ ClientClose
    \/ RunServerFinally

Lifecycle == LifecycleInit /\ [][LifecycleNext]_vars

\* the steps of thread t that wait for nothing outside the process
Proceeds(t) ==
    \/ run_server_socket(t)
    \/ run_server_bind(t)
    \/ run_server_loop(t)
    \/ handle_client_loop(t)
    \/ client_close(t)
    \/ run_server_finally(t)

\* the life cycle with every accept thread scheduled: a thread that can
\* take a step of its own does not stand still forever
LifecycleFair ==
    /\ Lifecycle
    /\ \A t \in Threads : WF_vars(Proceeds(t))

\* ------------------------------------------------------------------------
\* The store, statement by statement. Every function of dynamic_skills.py
\* that writes opens its own sqlite3 connection, executes its statements
\* and calls conn.commit() once; the sqlite3 module opens a transaction
\* before the first INSERT, UPDATE or DELETE, so nothing is durable before
\* the commit and a process that dies before it leaves the file as it was.
\* The handlers run on Blender's main thread, one at a time.
\* ------------------------------------------------------------------------
\* one cursor.execute call of a writing function
Statement(kind, name, caller, core, direct, indirect, elapsed_ms, params) ==
    [kind |-> kind, name |-> name, caller |-> caller, core |-> core,
     direct |-> direct, indirect |-> indirect, elapsed_ms |-> elapsed_ms,
     params |-> params]

\* the keys of self.handlers in the order of the dict
HandlerOrder ==
    <<"create_object", "render_image", "render_product_views",
      "register_skill", "unregister_skill", "get_skill_statistics">>

\* register_core_handlers: one INSERT OR IGNORE per name
register_core_handlers_statements ==
    [i \in DOMAIN HandlerOrder |->
        Statement("ignore", HandlerOrder[i], Absent, TRUE, 0, 0, 0,
                  NoParams)]

\* track_core_handler_call: the upsert of skill_statistics
track_core_handler_call_statements(name, elapsed_ms) ==
    <<Statement("statistics", name, Absent, TRUE, 1, 0, elapsed_ms,
                NoParams)>>

\* track_indirect_handler_call with the edge written before the row
track_indirect_handler_call_edge_first(name, caller, elapsed_ms) ==
    <<Statement("edge", name, caller, TRUE, 0, 0, 0, NoParams),
      Statement("statistics", name, Absent, TRUE, 0, 1, elapsed_ms,
                NoParams)>>

\* track_indirect_handler_call: the upsert of skill_statistics, then the
\* upsert of skill_call_graph
track_indirect_handler_call_statements(name, caller, elapsed_ms) ==
    <<Statement("statistics", name, Absent, TRUE, 0, 1, elapsed_ms,
                NoParams),
      Statement("edge", name, caller, TRUE, 0, 0, 0, NoParams)>>

\* execute_dynamic_skill(skill, params, caller=None) after the skill's
\* code has run: the UPDATE of dynamic_skills.call_count, then the upsert
\* of skill_statistics (`if caller:` is false, no edge is written)
execute_dynamic_skill_statements(name, elapsed_ms) ==
    <<Statement("call_count", name, Absent, FALSE, 0, 0, 0, NoParams),
      Statement("statistics", name, Absent, FALSE, 1, 0, elapsed_ms,
                NoParams)>>

\* handle_register_skill: the INSERT OR REPLACE of dynamic_skills
handle_register_skill_statements(params) ==
    <<Statement("replace", params.name, Absent, FALSE, 0, 0, 0, params)>>

\* handle_unregister_skill: the DELETE FROM dynamic_skills
handle_unregister_skill_statements(params) ==
    <<Statement("delete", params.name, Absent, FALSE, 0, 0, 0, params)>>

\* cursor.execute with every statement committed as it is executed
\* (isolation_level=None)
Autocommit == TRUE

\* the sqlite3 default: statements wait for conn.commit()
Deferred == FALSE

\* cursor.execute(statement): the tables as the connection sees them
\* after it
cursor_execute(q, sk, st, g) ==
    CASE q.kind = "ignore" ->
           [skills |-> sk, stats |-> register_core_handlers(st, {q.name}),
            graph |-> g]
      [] q.kind = "statistics" ->
           [skills |-> sk,
            stats |-> UpsertStats(st, q.name, q.core, q.direct, q.indirect,
                                  q.elapsed_ms),
            graph |-> g]
      [] q.kind = "edge" ->
           [skills |-> sk, stats |-> st,
            graph |-> UpsertEdge(g, q.caller, q.name)]
      [] q.kind = "call_count" ->
           [skills |-> IF q.name \in DynamicNames /\ sk[q.name].exists
                       THEN [sk EXCEPT ![q.name].call_count = @ + 1]
                       ELSE sk,
            stats |-> st, graph |-> g]
      [] q.kind = "replace" ->
           LET r == handle_register_skill(q.params, sk, st, g)
           IN  [skills |-> r.skills, stats |-> r.stats, graph |-> r.graph]
      [] OTHER ->
           LET r == handle_unregister_skill(q.params, sk, st, g)
           IN  [skills |-> r.skills, stats |-> r.stats, graph |-> r.graph]

\* the truth value Python gives a params member
Truthy(v) == v \notin {Absent, None, "", "False"}

\* the params of list_skills
ListParams(category, include_code) ==
    [category |-> category, include_code |-> include_code]

\* one dict of the `skills` list of handle_list_skills: its keys, and
\* the values of those it has
SkillInfo(keys, name, is_dynamic, skill) ==
    [keys |-> keys, name |-> name, is_dynamic |-> is_dynamic,
     category |-> IF "category" \in keys THEN skill.category ELSE Absent,
     version |-> IF "version" \in keys THEN skill.version ELSE Absent,
     call_count |-> IF "call_count" \in keys THEN skill.call_count ELSE 0,
     code |-> IF "code" \in keys THEN skill.code ELSE Absent]

\* handle_list_skills with the category filter applied to the static
\* handlers too, which have no category
handle_list_skills_filtering_core(params, sk) ==
    LET category_filter == params.category
        include_code == params.include_code
        core == {SkillInfo({"name", "is_dynamic"}, n, FALSE, NoSkill) :
                    n \in {h \in handlers : ~Truthy(category_filter)}}
        listed == {n \in DynamicNames :
                     /\ sk[n].exists
                     /\ ~(Truthy(category_filter)
                            /\ sk[n].category # category_filter)}
        dynamic ==
            {SkillInfo({"name", "category", "version", "call_count",
                        "is_dynamic"}
                         \cup (IF Truthy(include_code)
                                   /\ get_dynamic_skill(sk, n).exists
                               THEN {"code"} ELSE {}),
                       n, TRUE, sk[n]) : n \in listed}
    IN  [t |-> "skills", entries |-> core \cup dynamic,
         count |-> Cardinality(core) + Cardinality(dynamic),
         rows |-> EmptyStats]

\* handle_list_skills(params)
handle_list_skills(params, sk) ==
    LET category_filter == params.category
        include_code == params.include_code
        core == {SkillInfo({"name", "is_dynamic"}, n, FALSE, NoSkill) :
                    n \in handlers}
        listed == {n \in DynamicNames :
                     /\ sk[n].exists
                     /\ ~(Truthy(category_filter)
                            /\ sk[n].category # category_filter)}
        dynamic ==
            {SkillInfo({"name", "category", "version", "call_count",
                        "is_dynamic"}
                         \cup (IF Truthy(include_code)
                                   /\ get_dynamic_skill(sk, n).exists
                               THEN {"code"} ELSE {}),
                       n, TRUE, sk[n]) : n \in listed}
    IN  [t |-> "skills", entries |-> core \cup dynamic,
         count |-> Cardinality(core) + Cardinality(dynamic),
         rows |-> EmptyStats]

\* sqlite3.connect(db_path) in a function that writes: the statements it
\* is going to execute
connect(op, todo) ==
    /\ ~conn.open
    /\ nOps < MaxOps
    /\ nOps' = nOps + 1
    /\ answer' = NoAnswer
    /\ conn' = [open |-> TRUE, crashed |-> FALSE, op |-> op, done |-> <<>>,
                todo |-> todo, skills |-> skills, stats |-> stats,
                graph |-> call_graph]
    /\ UNCHANGED <<store, volatile, server, peer,
                   apicall, reader, exchange>>

\* _register_handlers at the next start of the add-on
SeedCoreHandlers ==
    connect("register_core_handlers", register_core_handlers_statements)

\* execute_in_main after a static handler returned
TrackCoreHandlerCall ==
    \E name \in {"create_object", CALLER_NAME}, elapsed_ms \in Elapsed :
       connect("track_core_handler_call",
               track_core_handler_call_statements(name, elapsed_ms))

\* call_handler("render_image", ..., caller=CALLER_NAME) after the handler
\* returned
TrackIndirectHandlerCall ==
    \E elapsed_ms \in Elapsed :
       connect("track_indirect_handler_call",
               track_indirect_handler_call_statements(
                   "render_image", CALLER_NAME, elapsed_ms))

\* execute_dynamic_skill after the code of the skill, resolved when the
\* request was dispatched, has run
ExecuteDynamicSkill ==
    \E elapsed_ms \in Elapsed :
       connect("execute_dynamic_skill",
               execute_dynamic_skill_statements("echo", elapsed_ms))

\* handle_register_skill with params that pass its validation
RegisterSkill ==
    \E name \in DynamicNames, category \in {Absent, "simple"} :
       connect("register_skill",
               handle_register_skill_statements(
                   [RegisterParams("copy") EXCEPT !.name = name,
                                                  !.category = category]))

\* handle_unregister_skill
UnregisterSkill ==
    connect("unregister_skill",
            handle_unregister_skill_statements(NameParams))

\* a function that reads: it sees what has been committed
Reads(params, value) ==
    /\ ~conn.open
    /\ nOps < MaxOps
    /\ nOps' = nOps + 1
    /\ answer' = [t |-> value.t, asked |-> params,
                  entries |-> value.entries, count |-> value.count,
                  rows |-> value.rows]
    /\ UNCHANGED <<conn, store, volatile, server, peer,
                   apicall, reader, exchange>>

\* handle_list_skills
ListSkills ==
    \E category \in {Absent, "", "simple", "standard"},
       include_code \in {Absent, "False", "True"} :
       Reads(ListParams(category, include_code),
             handle_list_skills(ListParams(category, include_code), skills))

\* handle_get_skill_statistics without a name
GetSkillStatistics ==
    LET v == handle_get_skill_statistics(NoParams, skills, stats,
                                         call_graph).value
    IN  Reads(ListParams(Absent, Absent),
              [t |-> v.t, entries |-> {},
               count |-> Cardinality({n \in StatNames : v.rows[n].exists}),
               rows |-> v.rows])

\* cursor.execute: the next statement of the function
Execute(autocommit) ==
    /\ conn.open
    /\ conn.todo # <<>>
    /\ LET x == cursor_execute(Head(conn.todo), conn.skills, conn.stats,
                               conn.graph)
       IN  /\ conn' = [conn EXCEPT !.done = Append(@, Head(conn.todo)),
                                   !.todo = Tail(@),
                                   !.skills = x.skills,
                                   !.stats = x.stats,
                                   !.graph = x.graph]
           /\ IF autocommit
              THEN /\ skills' = x.skills
                   /\ stats' = x.stats
                   /\ call_graph' = x.graph
              ELSE UNCHANGED store
    /\ UNCHANGED <<answer, nOps, volatile, server, peer,
                   apicall, reader, exchange>>

\* cursor.execute on a connection in the default isolation level
CursorExecute == Execute(Deferred)

\* conn.commit(); conn.close()
Commit ==
    /\ conn.open
    /\ conn.todo = <<>>
    /\ skills' = conn.skills
    /\ stats' = conn.stats
    /\ call_graph' = conn.graph
    /\ conn' = [conn EXCEPT !.open = FALSE]
    /\ UNCHANGED <<answer, nOps, volatile, server, peer,
                   apicall, reader, exchange>>

\* Blender is killed while a connection is open: the transaction is
\* rolled back when the file is opened next
Crash ==
    /\ conn.open
    /\ conn' = [conn EXCEPT !.open = FALSE, !.crashed = TRUE]
    /\ UNCHANGED <<store, answer, nOps, volatile, server, peer,
                   apicall, reader, exchange>>

\* a new dynamic_skills.db after init_db, no request under way
StoreInit ==
    /\ Elsewhere
    /\ ServerConstructed
    /\ profile = "framing"
    /\ pc = "accept"
    /\ buffer = <<>>
    /\ reqs = <<>>
    /\ response = ResultResponse(None, NoneValue)
    /\ out = <<>>
    /\ nSent = 0
    /\ nCalls = 0
    /\ nTimeouts = 0
    /\ cur = NoCur
    /\ timers = <<>>
    /\ finishing = 0
    /\ skills = EmptySkills
    /\ stats = EmptyStats
    /\ call_graph = EmptyGraph
    /\ invocations = <<>>
    /\ last_run = NoRun
    /\ conn = NoConn /\ answer = NoAnswer /\ nOps = 0
    /\ response_data = NoData /\ blender_response = NoReceived
    /\ sent = NoOutcome

StoreNext ==
    \/ SeedCoreHandlers
    \/ TrackCoreHandlerCall
    \/ TrackIndirectHandlerCall
    \/ ExecuteDynamicSkill
    \/ RegisterSkill
    \/ UnregisterSkill
    \/ ListSkills
    \/ GetSkillStatistics
    \/ CursorExecute
    \/ Commit
    \/ Crash

Store == StoreInit /\ [][StoreNext]_vars

\* ------------------------------------------------------------------------
\* The functions of the handlers package called directly, with every
\* argument their signatures admit: execute_dynamic_skill(skill, params,
\* caller=None), call_handler(name, params, caller=None), and the handlers
\* that unregister a skill and read the statistics and the call graph
\* ------------------------------------------------------------------------
\* the add-on as constructed, with nothing under way on the network
\* thread, in the store's connections or in the client
Quiet ==
    /\ ServerConstructed
    /\ profile = "framing"
    /\ pc = "accept"
    /\ buffer = <<>>
    /\ reqs = <<>>
    /\ response = ResultResponse(None, NoneValue)
    /\ out = <<>>
    /\ nSent = 0
    /\ nCalls = 0
    /\ nTimeouts = 0
    /\ cur = NoCur
    /\ timers = <<>>
    /\ finishing = 0
    /\ invocations = <<>>
    /\ last_run = NoRun
    /\ conn = NoConn /\ answer = NoAnswer /\ nOps = 0
    /\ response_data = NoData /\ blender_response = NoReceived
    /\ sent = NoOutcome

\* the values of the `caller` argument: None, an empty string, a name
Callers == {None, "", CALLER_NAME}

\* the bodies of the skill: those of Codes, and
\*   none   result = None
\*   zero   result = 0
SkillCodes == Codes \cup {"none", "zero"}

\* execute_dynamic_skill with `if not result:` for `if result is None:`
execute_dynamic_skill_from_falsy(name, skill, params, caller, elapsed_ms, sk, st, g) ==
    IF skill.code = "raise" THEN Raised("boom", sk, st, g)
    ELSE IF skill.code = "raise_empty" THEN Raised("", sk, st, g)
    ELSE LET bound == CASE skill.code = "copy" -> ParamsValue(params)
                        [] skill.code = "nonserial" -> NonSerializable
                        [] skill.code = "zero" -> Val("0")
                        [] OTHER -> NoneValue
             result == IF bound \in {NoneValue, Val("0")}
                       THEN SuccessMarker ELSE bound
             is_direct == caller = None
         IN  Returned(result,
                      [sk EXCEPT ![name] =
                          IF @.exists
                          THEN [@ EXCEPT !.call_count = @ + 1] ELSE @],
                      UpsertStats(st, name, FALSE,
                                  IF is_direct THEN 1 ELSE 0,
                                  IF is_direct THEN 0 ELSE 1, elapsed_ms),
                      IF Truthy(caller) THEN UpsertEdge(g, caller, name)
                      ELSE g)

\* execute_dynamic_skill(skill, params, caller): exec(code, namespace),
\* `if result is None`, the UPDATE of call_count, the upsert of
\* skill_statistics with is_direct = caller is None, and the upsert of
\* skill_call_graph under `if caller:`
execute_dynamic_skill_from(name, skill, params, caller, elapsed_ms, sk, st, g) ==
    IF skill.code = "raise" THEN Raised("boom", sk, st, g)
    ELSE IF skill.code = "raise_empty" THEN Raised("", sk, st, g)
    ELSE LET bound == CASE skill.code = "copy" -> ParamsValue(params)
                        [] skill.code = "nonserial" -> NonSerializable
                        [] skill.code = "zero" -> Val("0")
                        [] OTHER -> NoneValue
             result == IF bound = NoneValue THEN SuccessMarker ELSE bound
             is_direct == caller = None
         IN  Returned(result,
                      [sk EXCEPT ![name] =
                          IF @.exists
                          THEN [@ EXCEPT !.call_count = @ + 1] ELSE @],
                      UpsertStats(st, name, FALSE,
                                  IF is_direct THEN 1 ELSE 0,
                                  IF is_direct THEN 0 ELSE 1, elapsed_ms),
                      IF Truthy(caller) THEN UpsertEdge(g, caller, name)
                      ELSE g)

\* call_handler that tracks the call before it calls the handler, so that
\* a handler that raises is counted too
call_handler_tracks_first(name, caller, outcome, elapsed_ms, sk, st, g) ==
    IF name \notin handlers THEN Raised("Handler not found", sk, st, g)
    ELSE LET x == IF Truthy(caller)
                  THEN track_indirect_handler_call(st, g, name, caller,
                                                   elapsed_ms)
                  ELSE [stats |-> st, graph |-> g]
         IN  OpaqueHandler(outcome, sk, x.stats, x.graph)

\* call_handler(name, params, caller) for a handler that calls no other
call_handler(name, caller, outcome, elapsed_ms, sk, st, g) ==
    IF name \notin handlers THEN Raised("Handler not found", sk, st, g)
    ELSE LET r == OpaqueHandler(outcome, sk, st, g)
         IN  IF r.raised \/ ~Truthy(caller) THEN r
             ELSE LET x == track_indirect_handler_call(
                               r.stats, r.graph, name, caller, elapsed_ms)
                  IN  [r EXCEPT !.stats = x.stats, !.graph = x.graph]

\* how a direct call ends: the store it leaves and what is known of it
Called(fn, name, caller, code, r, runs) ==
    /\ nOps < MaxOps
    /\ nOps' = nOps + 1
    /\ skills' = r.skills
    /\ stats' = r.stats
    /\ call_graph' = r.graph
    /\ invoked' = [fn |-> fn, name |-> name, caller |-> caller,
                   code |-> code, raised |-> r.raised, value |-> r.value,
                   handler_runs |-> runs]
    /\ UNCHANGED <<conn, answer, volatile, server, peer, reader, exchange>>

\* execute_dynamic_skill(get_dynamic_skill("echo"), {"x": 1}, caller)
CallExecuteDynamicSkill ==
    /\ skills["echo"].exists
    /\ \E caller \in Callers, elapsed_ms \in Elapsed :
         Called("execute_dynamic_skill", "echo", caller,
                skills["echo"].code,
                execute_dynamic_skill_from("echo", skills["echo"], XParams,
                                           caller, elapsed_ms, skills, stats,
                                           call_graph),
                0)

\* the names call_handler is given: two static handlers, a registered
\* dynamic skill, a name nobody has
CalledNames == {"render_image", "create_object", "echo", "nosuch"}

\* call_handler(name, {...}, caller)
CallHandler ==
    \E name \in CalledNames, caller \in Callers, outcome \in Outcomes,
       elapsed_ms \in Elapsed :
       Called("call_handler", name, caller, Absent,
              call_handler(name, caller, outcome, elapsed_ms, skills, stats,
                           call_graph),
              IF name \in handlers THEN 1 ELSE 0)

\* handle_unregister_skill({"name": name})
CallUnregisterSkill ==
    \E name \in {"echo", "create_object"} :
       Called("handle_unregister_skill", name, None, Absent,
              handle_unregister_skill([NoParams EXCEPT !.name = name],
                                      skills, stats, call_graph),
              0)

\* handle_get_skill_statistics({}) and ({"name": "echo"})
CallGetSkillStatistics ==
    \E name \in {Absent, "echo"} :
       Called("handle_get_skill_statistics", name, None, Absent,
              handle_get_skill_statistics([NoParams EXCEPT !.name = name],
                                          skills, stats, call_graph),
              0)

\* handle_get_call_graph with and without its two filters
CallGetCallGraph ==
    \E caller \in {Absent, CALLER_NAME}, callee \in {Absent, "echo"} :
       Called("handle_get_call_graph", callee, caller, Absent,
              handle_get_call_graph(CallGraphParams(caller, callee),
                                    skills, stats, call_graph),
              0)

\* the add-on has been registered and the skill "echo" is in the store
\* with one of the bodies
DirectInit ==
    /\ Quiet
    /\ Elsewhere
    /\ \E c \in SkillCodes :
         skills = [EmptySkills EXCEPT !["echo"] =
                      [exists |-> TRUE, category |-> "standard",
                       code |-> c, version |-> "1.0.0", call_count |-> 0]]
    /\ stats = register_core_handlers(EmptyStats, handlers)
    /\ call_graph = EmptyGraph

DirectNext ==
    \/ CallExecuteDynamicSkill
    \/ CallHandler
    \/ CallUnregisterSkill
    \/ CallGetSkillStatistics
    \/ CallGetCallGraph

Direct == DirectInit /\ [][DirectNext]_vars

\* ------------------------------------------------------------------------
\* _handle_client byte by byte: what one connection's peer sends, how
\* recv() cuts it into chunks, and what the loop makes of each chunk
\* ------------------------------------------------------------------------
\* the characters a peer writes: a letter, a space, the newline, and a
\* letter outside ASCII
Characters == {"x", " ", "nl", "eacute"}

\* str.encode("utf-8"): one byte for an ASCII character, a lead byte and
\* a continuation byte for U+00E9
encode(c) == IF c = "eacute" THEN <<"lead", "cont">> ELSE <<c>>

\* what bytes.decode("utf-8") cannot decode
Undecodable == "UnicodeDecodeError"

\* data.decode("utf-8"): the characters of data, with Undecodable from
\* the byte the codec cannot decode: a continuation byte without its lead
\* byte, a lead byte without its continuation byte
RECURSIVE decode(_)
decode(data) ==
    IF data = <<>> THEN <<>>
    ELSE IF data[1] = "lead"
    THEN IF Len(data) >= 2 /\ data[2] = "cont"
         THEN <<"eacute">> \o decode(SubSeq(data, 3, Len(data)))
         ELSE <<Undecodable>>
    ELSE IF data[1] = "cont" THEN <<Undecodable>>
    ELSE <<data[1]>> \o decode(Tail(data))

\* "\n" in buffer
HasNewline(buf) == \E i \in DOMAIN buf : buf[i] = "nl"

\* line.strip(): whether anything is left of the line
strip(line) == \E i \in DOMAIN line : line[i] # " "

\* the inner loop of _handle_client: while "\n" in buffer, split the
\* first line off and process it if line.strip(); the lines processed
\* and the buffer that is left
RECURSIVE SplitLines(_, _)
SplitLines(buf, lines) ==
    IF ~HasNewline(buf) THEN [lines |-> lines, buffer |-> buf]
    ELSE LET i == CHOOSE k \in DOMAIN buf :
                     buf[k] = "nl" /\ \A j \in 1..(k - 1) : buf[j] # "nl"
             line == SubSeq(buf, 1, i - 1)
         IN  SplitLines(SubSeq(buf, i + 1, Len(buf)),
                        IF strip(line) THEN Append(lines, line) ELSE lines)

\* the peer writes one more character to its socket
PeerSends ==
    /\ link = "open"
    /\ \E c \in Characters :
         /\ Len(stream) + Len(encode(c)) <= MaxStream
         /\ stream' = stream \o encode(c)
         /\ wire' = wire \o encode(c)
    /\ UNCHANGED <<text, dispatched, link>>
    /\ UNCHANGED <<store, volatile, server, session, peer, apicall, exchange>>

\* the peer closes its socket
PeerCloses ==
    /\ link = "open"
    /\ link' = "fin"
    /\ UNCHANGED <<stream, wire, text, dispatched>>
    /\ UNCHANGED <<store, volatile, server, session, peer, apicall, exchange>>

\* one turn of the outer loop with data: client.recv(BUFFER_SIZE) returns
\* the first n bytes in flight, whatever n; they are decoded and added to
\* the buffer and the complete lines are processed. A UnicodeDecodeError
\* leaves the loop through `except Exception` and `finally` closes the
\* socket
RecvChunk ==
    /\ link \in {"open", "fin"}
    /\ \E n \in 1..Len(wire) :
         LET data == SubSeq(wire, 1, n)
             chars == decode(data)
             split == SplitLines(text \o chars, <<>>)
         IN  /\ wire' = SubSeq(wire, n + 1, Len(wire))
             /\ IF \E i \in DOMAIN chars : chars[i] = Undecodable
                THEN /\ link' = "failed"
                     /\ UNCHANGED <<text, dispatched>>
                ELSE /\ text' = split.buffer
                     /\ dispatched' = dispatched \o split.lines
                     /\ link' = link
    /\ UNCHANGED stream
    /\ UNCHANGED <<store, volatile, server, session, peer, apicall, exchange>>

\* one turn of the outer loop at the end of the stream: recv returns b"",
\* `if not data: break`, and the buffer goes with the function
RecvEof ==
    /\ link = "fin"
    /\ wire = <<>>
    /\ link' = "closed"
    /\ text' = <<>>
    /\ UNCHANGED <<stream, wire, dispatched>>
    /\ UNCHANGED <<store, volatile, server, session, peer, apicall, exchange>>

\* a client has connected and has sent nothing yet
FramingInit ==
    /\ Quiet
    /\ Elsewhere
    /\ skills = EmptySkills
    /\ stats = register_core_handlers(EmptyStats, handlers)
    /\ call_graph = EmptyGraph

FramingNext ==
    \/ PeerSends
    \/ PeerCloses
    \/ RecvChunk
    \/ RecvEof

Framing == FramingInit /\ [][FramingNext]_vars

\* ------------------------------------------------------------------------
\* The client and the add-on on one connection: the send_request calls of
\* the one BlenderClient, the requests the add-on has not answered yet and
\* the response lines the client has not read yet
\* ------------------------------------------------------------------------
\* the response line of the add-on to a request: the request's id with a
\* result or with an error
ResponseLine(id, member) == [id |-> id, member |-> member]

\* send_request up to its readline: under the lock, a request with a new
\* id (the number of the call stands for the uuid4) is written to the
\* connection
SendRequest ==
    /\ ~awaiting
    /\ nSendRequest < MaxSends
    /\ nSendRequest' = nSendRequest + 1
    /\ awaiting' = TRUE
    /\ unanswered' = Append(unanswered, nSendRequest + 1)
    /\ UNCHANGED <<unread, delivered>>
    /\ UNCHANGED <<store, volatile, server, session, peer, apicall, reader>>

\* _handle_client answers the oldest request of the connection, when
\* _process_request returns: with the handler's result, with its error,
\* or with a null result after done_event.wait(timeout=30.0) ran out
ServerAnswers ==
    /\ unanswered # <<>>
    /\ \E member \in {"result", "error"} :
         unread' = Append(unread, ResponseLine(Head(unanswered), member))
    /\ unanswered' = Tail(unanswered)
    /\ UNCHANGED <<nSendRequest, awaiting, delivered>>
    /\ UNCHANGED <<store, volatile, server, session, peer, apicall, reader>>

\* readline() returns the next line of the StreamReader, whichever it
\* is: from_dict, `if response.is_error: raise`, `return response.result`;
\* response.id is not looked at
ReadLine ==
    /\ awaiting
    /\ unread # <<>>
    /\ delivered' = [call |-> nSendRequest,
                     kind |-> IF Head(unread).member = "error"
                              THEN "raised" ELSE "returned",
                     answers |-> Head(unread).id]
    /\ unread' = Tail(unread)
    /\ awaiting' = FALSE
    /\ UNCHANGED <<nSendRequest, unanswered>>
    /\ UNCHANGED <<store, volatile, server, session, peer, apicall, reader>>

\* no line within READ_TIMEOUT: asyncio.TimeoutError, send_request raises
\* BlenderConnectionError and leaves the connection as it is
ReadTimeout ==
    /\ awaiting
    /\ unread = <<>>
    /\ delivered' = [call |-> nSendRequest, kind |-> "timeout",
                     answers |-> 0]
    /\ awaiting' = FALSE
    /\ UNCHANGED <<nSendRequest, unanswered, unread>>
    /\ UNCHANGED <<store, volatile, server, session, peer, apicall, reader>>

\* the client is connected and has not called send_request yet
ExchangeInit ==
    /\ Quiet
    /\ Elsewhere
    /\ skills = EmptySkills
    /\ stats = register_core_handlers(EmptyStats, handlers)
    /\ call_graph = EmptyGraph

ExchangeNext ==
    \/ SendRequest
    \/ ServerAnswers
    \/ ReadLine
    \/ ReadTimeout

Exchange == ExchangeInit /\ [][ExchangeNext]_vars

\* ------------------------------------------------------------------------
\* The client (blender_agent): what send_request makes of a response line
\* ------------------------------------------------------------------------
\* the response objects a line from the add-on can decode to: what
\* _process_request writes (id or null, and one of result and error) and
\* the other objects a peer can send
ResponseObjects ==
    [id : {Absent, None, "a"},
     result : {Absent, None, "dict"},
     error : {AbsentMember, NullMember, TextMember,
              ErrorObject(Absent, Absent),
              ErrorObject("-32601", "Method not found"),
              ErrorObject("-32603", Absent)}]

\* BlenderResponse.from_dict(data)
from_dict(d) ==
    [id |-> IF d.id = Absent THEN "" ELSE d.id,
     result |-> IF d.result = Absent THEN None ELSE d.result,
     error |-> IF d.error = AbsentMember THEN NullMember ELSE d.error]

\* BlenderResponse.is_error that tests the truth value of error: an empty
\* error object does not count
is_error_truthy(r) ==
    r.error.kind = "str"
      \/ (r.error.kind = "dict" /\ r.error # ErrorObject(Absent, Absent))

\* BlenderResponse.is_error: self.error is not None
is_error(r) == r.error # NullMember

\* error.get(key, default)
error_get(member, default) == IF member = Absent THEN default ELSE member

\* send_request: response = BlenderResponse.from_dict(response_data)
FromDict ==
    /\ blender_response = NoReceived
    /\ blender_response' = from_dict(response_data)
    /\ UNCHANGED <<response_data, sent, bridge, server, session,
                   apicall, reader, exchange>>

\* send_request: if response.is_error: raise Exception(f"Blender error
\* ({code}): {message}"); error.get itself raises AttributeError on a
\* value that is not a dict
RaiseError ==
    /\ blender_response # NoReceived
    /\ sent = NoOutcome
    /\ is_error(blender_response)
    /\ sent' = IF blender_response.error.kind = "dict"
               THEN [kind |-> "raised", exception |-> "Exception",
                     code |-> error_get(blender_response.error.code,
                                        "unknown"),
                     message |-> error_get(blender_response.error.message,
                                           "Unknown error"),
                     value |-> Absent]
               ELSE [kind |-> "raised", exception |-> "AttributeError",
                     code |-> Absent, message |-> Absent, value |-> Absent]
    /\ UNCHANGED <<response_data, blender_response, bridge, server,
                   session,
                   apicall, reader, exchange>>

\* send_request: return response.result
ReturnResult ==
    /\ blender_response # NoReceived
    /\ sent = NoOutcome
    /\ ~is_error(blender_response)
    /\ sent' = [kind |-> "returned", exception |-> Absent, code |-> Absent,
                message |-> Absent, value |-> blender_response.result]
    /\ UNCHANGED <<response_data, blender_response, bridge, server,
                   session,
                   apicall, reader, exchange>>

\* the add-on as constructed, nothing under way, and a response line that
\* json.loads has just decoded
ClientInit ==
    /\ Elsewhere
    /\ ServerConstructed
    /\ profile = "framing"
    /\ pc = "accept"
    /\ buffer = <<>>
    /\ reqs = <<>>
    /\ response = ResultResponse(None, NoneValue)
    /\ out = <<>>
    /\ nSent = 0
    /\ nCalls = 0
    /\ nTimeouts = 0
    /\ cur = NoCur
    /\ timers = <<>>
    /\ finishing = 0
    /\ skills = EmptySkills
    /\ stats = register_core_handlers(EmptyStats, handlers)
    /\ call_graph = EmptyGraph
    /\ invocations = <<>>
    /\ last_run = NoRun
    /\ conn = NoConn /\ answer = NoAnswer /\ nOps = 0
    /\ response_data \in ResponseObjects
    /\ blender_response = NoReceived
    /\ sent = NoOutcome

ClientNext ==
    \/ FromDict
    \/ RaiseError
    \/ ReturnResult

Client == ClientInit /\ [][ClientNext]_vars

\* ------------------------------------------------------------------------
\* Properties
\* ------------------------------------------------------------------------
\* out[k] is the response to reqs[k]: a response is written before the
\* next line is taken
Answered == 1..Len(out)

\* the network thread takes the next line and calls _process_request
TakesLine == pc = "lines" /\ reqs' # reqs

\* the last response line written
LastOut == out[Len(out)]

\* C1: a line that json.loads rejects is answered with an error envelope
\* of code -32700 and id null; the connection stays open, the rest of the
\* buffer is kept, and neither the timers nor the store are touched
C1_ParseErrorKeepsConnection ==
    [][(TakesLine /\ Head(buffer).kind = "malformed")
         => /\ Len(out') = Len(out) + 1
            /\ out'[Len(out')].has_error
            /\ ~out'[Len(out')].has_result
            /\ out'[Len(out')].code = PARSE_ERROR
            /\ out'[Len(out')].id = None
            /\ pc' \in {"recv", "lines"}
            /\ buffer' = Tail(buffer)
            /\ timers' = timers
            /\ store' = store]_vars

\* a malformed line was answered with -32700 and the next line of the same
\* connection was dispatched and answered with its handler's result
C1_Witness ==
    \E k \in Answered :
        /\ k + 1 \in Answered
        /\ reqs[k].kind = "malformed"
        /\ out[k].code = PARSE_ERROR
        /\ reqs[k + 1].method = "create_object"
        /\ out[k + 1].has_result
        /\ out[k + 1].result = Val("dict")
        /\ out[k + 1].id = "b"

\* C2: a line that parses as JSON and has no `method` member is answered
\* with error -32600, and no task is registered for it
C2_NoMethodIsInvalidRequest ==
    [][(/\ TakesLine
        /\ Head(buffer).kind \in {"nonobject", "object"}
        /\ Head(buffer).method = Absent)
         => /\ response'.has_error
            /\ response'.code = INVALID_REQUEST
            /\ timers' = timers]_vars

\* the dynamic skill of that name that is registered right now
Registered(name) == name \in DynamicNames /\ skills[name].exists

\* C3: a method name that is neither in the handler table nor a registered
\* dynamic skill is answered with error -32601 and the request's id; no
\* task is registered, no handler runs and the store is left as it is
C3_UnknownMethodNotDispatched ==
    [][(/\ TakesLine
        /\ Head(buffer).kind = "object"
        /\ Head(buffer).method \notin {Absent, Unhashable}
        /\ Head(buffer).method \notin handlers
        /\ ~Registered(Head(buffer).method))
         => /\ Len(out') = Len(out) + 1
            /\ out'[Len(out')].has_error
            /\ out'[Len(out')].code = METHOD_NOT_FOUND
            /\ out'[Len(out')].id = get_id(Head(buffer))
            /\ timers' = timers
            /\ cur' = cur
            /\ invocations' = invocations
            /\ store' = store]_vars

\* a skill was unregistered and a later request for its name was answered
\* with -32601, leaving no timer registered and no statistics row for it
C3_Witness ==
    /\ \E j \in Answered, k \in Answered :
         /\ j < k
         /\ reqs[j].method = "unregister_skill"
         /\ out[j].has_result
         /\ reqs[k].method = "echo"
         /\ out[k].code = METHOD_NOT_FOUND
    /\ stats["echo"] = NoRow
    /\ timers = <<>>

\* C4: when the wait times out the request is answered from the containers
\* as they are, with both empty a result envelope carrying null; the task
\* is neither cancelled nor touched
C4_TimeoutAnswersFromContainers ==
    [][(pc = "wait" /\ ~cur.done_event /\ pc' # "wait")
         => /\ response' =
                 IF cur.error_container \notin {None, ""}
                 THEN ErrorResponse(cur.id, INTERNAL_ERROR,
                                    cur.error_container)
                 ELSE ResultResponse(cur.id, cur.result_container)
            /\ (cur.error_container = None
                  /\ cur.result_container = NoneValue
                  => /\ response'.has_result
                     /\ ~response'.has_error
                     /\ response'.result = NoneValue
                     /\ out' = Append(out, response'))
            /\ timers' = timers
            /\ finishing' = finishing
            /\ invocations' = invocations
            /\ store' = store]_vars

\* the first request timed out with empty containers, was answered with a
\* null result, and its task ran on the main thread after that
C4_Witness ==
    /\ nCalls = Len(reqs)
    /\ 1 \in Answered
    /\ out[1] = ResultResponse(get_id(reqs[1]), NoneValue)
    /\ \E i \in DOMAIN invocations :
         invocations[i].serial = 1 /\ invocations[i].late

\* C5: handler bodies and skill code run on the main thread only; a step
\* of the network thread runs no handler and leaves the store alone
C5_HandlersRunOnMainThreadOnly ==
    /\ [](\A i \in DOMAIN invocations : invocations[i].thread = "main")
    /\ [][(pc' # pc \/ reqs' # reqs \/ out' # out \/ buffer' # buffer)
            => (invocations' = invocations /\ store' = store)]_vars

\* a static handler and a dynamic skill have both run and been answered
C5_Witness ==
    /\ Len(invocations) >= 2
    /\ \E k \in Answered :
         reqs[k].method = "create_object" /\ out[k].result = Val("dict")
    /\ \E k \in Answered :
         reqs[k].method = "echo" /\ out[k].result = ParamsValue(XParams)

\* C6: when the task of the request has raised and completed, the request
\* is answered with error -32603 carrying str(e), never with a result
C6_RaiseAnsweredWithInternalError ==
    [][(/\ pc = "wait"
        /\ cur.done_event
        /\ pc' # "wait"
        /\ cur.error_container # None)
         => /\ response'.has_error
            /\ ~response'.has_result
            /\ response'.code = INTERNAL_ERROR
            /\ response'.message = cur.error_container]_vars

\* C7: between two lines every line _process_request was called on has
\* its response line written
C7_OneResponsePerLine ==
    pc # "wait" => Len(out) = Len(reqs)

\* C8: as many response lines as request lines, the k-th carrying the id
\* of the k-th request
C8_ResponsesInOrderWithIds ==
    pc # "wait" =>
        /\ Len(out) = Len(reqs)
        /\ \A k \in 1..Len(reqs) : out[k].id = get_id(reqs[k])

\* C9: a line that parses as a JSON object with an id is answered with
\* that id, whatever the outcome
C9_IdEchoed ==
    \A k \in Answered :
        (reqs[k].kind = "object" /\ reqs[k].id # Absent)
            => out[k].id = reqs[k].id

\* requests k and k+1 are the same get_skill_statistics query and both
\* were answered with the statistics
ConsecutiveQueries(k) ==
    /\ k \in Answered
    /\ k + 1 \in Answered
    /\ reqs[k].method = "get_skill_statistics"
    /\ reqs[k + 1] = reqs[k]
    /\ out[k].result.t = "statistics"
    /\ out[k + 1].result.t = "statistics"

\* C10 as claimed: two consecutive get_skill_statistics requests return
\* the same direct_calls and indirect_calls for every row
C10_QueryTwiceIdentical ==
    \A k \in Answered :
        ConsecutiveQueries(k) =>
            \A n \in StatNames :
                /\ out[k + 1].result.rows[n].direct_calls
                     = out[k].result.rows[n].direct_calls
                /\ out[k + 1].result.rows[n].indirect_calls
                     = out[k].result.rows[n].indirect_calls

\* C10 as amended: the same rows with the same counts, but for the row of
\* get_skill_statistics itself, whose direct_calls is one higher in the
\* second answer when the row is part of the answer
C10_QueryTwiceCountsTheQuery ==
    \A k \in Answered :
        ConsecutiveQueries(k) =>
            \A n \in StatNames :
                LET first == out[k].result.rows[n]
                    second == out[k + 1].result.rows[n]
                IN  /\ second.exists = first.exists
                    /\ second.is_core = first.is_core
                    /\ second.indirect_calls = first.indirect_calls
                    /\ second.direct_calls =
                         IF n = "get_skill_statistics" /\ first.exists
                         THEN first.direct_calls + 1
                         ELSE first.direct_calls

\* two unfiltered queries in a row, the second showing one more direct
\* call of get_skill_statistics; and two filtered ones, identical
C10_Witness ==
    \E k \in Answered :
        /\ ConsecutiveQueries(k)
        /\ out[k].result.rows["get_skill_statistics"].exists
        /\ out[k + 1].result.rows["get_skill_statistics"].direct_calls
             = out[k].result.rows["get_skill_statistics"].direct_calls + 1
        /\ out[k].result.rows["create_object"].exists

\* a handler body has just run: one more entry in invocations, and
\* last_run' describes the run
Ran == invocations' # invocations

\* C11: a run that raises is still counted against the statistics row of
\* its name, dynamic skill or static handler: the row is there, it has one
\* more direct call, and its total time has not gone down
C11_RaiseStillCounted ==
    [][(Ran /\ last_run'.raised)
         => LET m == last_run'.method
            IN  /\ stats'[m].exists
                /\ stats'[m].direct_calls = stats[m].direct_calls + 1
                /\ stats'[m].total_time_ms >= stats[m].total_time_ms]_vars

\* C12: a run of a dynamic skill that completes adds exactly 1 to the
\* direct_calls of its row, nothing to indirect_calls, and no call-graph
\* edge; code that copies params into result leaves the params in the
\* result container, and the response written carries them
C12_DynamicCallCountsOnceDirect ==
    /\ [][(Ran /\ last_run'.method \notin handlers /\ ~last_run'.raised)
            => LET m == last_run'.method
                   task == Head(timers)
               IN  /\ stats'[m].exists
                   /\ stats'[m].direct_calls = stats[m].direct_calls + 1
                   /\ stats'[m].indirect_calls = stats[m].indirect_calls
                   /\ call_graph' = call_graph
                   /\ (task.dynamic_skill.code = "copy"
                         /\ cur.serial = task.serial
                         => cur'.result_container
                              = ParamsValue(task.params))]_vars
    /\ [](profile = "registry" =>
            \A k \in Answered :
                (reqs[k].method = "echo" /\ out[k].has_result
                   /\ out[k].result # NoneValue)
                    => out[k].result = ParamsValue(reqs[k].params))

\* "echo" was registered with code that copies params, invoked once with
\* {"x": 1} and answered with {"x": 1}; its row shows one direct call
C12_Witness ==
    /\ Len(out) = 2
    /\ reqs[1].method = "register_skill"
    /\ out[1].has_result
    /\ reqs[2] = Request("b", "echo", XParams)
    /\ out[2] = ResultResponse("b", ParamsValue(XParams))
    /\ Len(invocations) = 2
    /\ stats["echo"].direct_calls = 1
    /\ stats["echo"].indirect_calls = 0
    /\ call_graph = EmptyGraph

\* a static handler dispatched from the wire has just completed
StaticRunCompleted ==
    Ran /\ last_run'.method \in handlers /\ ~last_run'.raised

\* the row of the handler after a completed run: one more direct call,
\* the same indirect calls, the elapsed time added
DirectCallBooked(m) ==
    /\ stats'[m].exists
    /\ stats'[m].direct_calls = stats[m].direct_calls + 1
    /\ stats'[m].indirect_calls = stats[m].indirect_calls
    /\ stats'[m].total_time_ms
         = stats[m].total_time_ms + last_run'.elapsed_ms

\* C13 as claimed: a completed run of a static handler books one direct
\* call with its elapsed time and adds no call-graph edge
C13_StaticCallAddsNoEdge ==
    [][StaticRunCompleted
         => /\ DirectCallBooked(last_run'.method)
            /\ call_graph' = call_graph]_vars

\* C13 as amended: a completed run of a static handler books one direct
\* call with its elapsed time and adds no call-graph edge towards the
\* handler; the edges that change are those of the calls the handler
\* itself made through call_handler, with the handler as caller
C13_StaticCallAddsNoEdgeToItself ==
    [][StaticRunCompleted
         => LET m == last_run'.method
            IN  /\ DirectCallBooked(m)
                /\ \A e \in DOMAIN call_graph :
                      /\ e[2] = m => call_graph'[e] = call_graph[e]
                      /\ call_graph'[e] # call_graph[e]
                           => /\ e[1] = m
                              /\ last_run'.calls > 0]_vars

\* the compound handler completed after a nested call: it has one direct
\* call and the edge to the handler it called; and an ordinary handler
\* completed with its time booked
C13_Witness ==
    /\ last_run.method = "render_product_views"
    /\ ~last_run.raised
    /\ last_run.calls = 1
    /\ last_run.elapsed_ms = MaxElapsed
    /\ stats["render_product_views"].direct_calls = 1
    /\ stats["render_product_views"].indirect_calls = 0
    /\ stats["render_product_views"].total_time_ms = MaxElapsed
    /\ call_graph[<<CALLER_NAME, "render_image">>] = 1

\* C14: the call_handler calls a run of handler A made of handler B, with
\* caller = A, each add 1 to the edge (A, B) and to B's indirect_calls and
\* leave B's direct_calls alone
C14_IndirectCallsCounted ==
    [][(Ran /\ last_run'.calls > 0)
         => LET A == last_run'.method
                B == "render_image"
                n == last_run'.calls
            IN  /\ call_graph'[<<A, B>>] = call_graph[<<A, B>>] + n
                /\ stats'[B].indirect_calls = stats[B].indirect_calls + n
                /\ stats'[B].direct_calls = stats[B].direct_calls]_vars

\* the dynamic_skills row an earlier session left behind
StoredSkill(code) ==
    [exists |-> TRUE, category |-> "standard", code |-> code,
     version |-> "1.0.0", call_count |-> 0]

\* C15: a register_skill run that completes replaces the definition of the
\* name and keeps the call_count the name had; a name that had no
\* definition starts at 0; the other names are left alone
C15_RegisterKeepsCallCount ==
    [][(Ran /\ last_run'.method = "register_skill" /\ ~last_run'.raised)
         => LET p == Head(timers).params
            IN  /\ skills'[p.name].exists
                /\ skills'[p.name].code = p.code
                /\ skills'[p.name].version
                     = (IF p.version = Absent THEN "1.0.0" ELSE p.version)
                /\ skills'[p.name].category
                     = (IF p.category = Absent THEN "standard"
                        ELSE p.category)
                /\ skills'[p.name].call_count
                     = (IF skills[p.name].exists
                        THEN skills[p.name].call_count ELSE 0)
                /\ \A n \in DynamicNames \ {p.name} :
                      skills'[n] = skills[n]]_vars

\* "echo" was invoked once and then registered again with a new version:
\* the new definition is in the store with call_count 1
C15_Witness ==
    /\ Len(out) = 2
    /\ reqs[1].method = "echo"
    /\ out[1].has_result
    /\ reqs[2].method = "register_skill"
    /\ out[2].result.t = "registered"
    /\ skills["echo"] = [StoredSkill("copy") EXCEPT !.version = "2.0.0",
                                                    !.call_count = 1]

InvalidRegistration(p) ==
    \/ p.name \in {Absent, ""}
    \/ p.code \in {Absent, ""}
    \/ (p.category # Absent /\ p.category \notin Categories)

\* C17: a register_skill run on params without a name, without code or
\* with a category outside the four raises and leaves dynamic_skills as it
\* is; once the run is over the request is answered with error -32603
C17_InvalidRegistrationRejected ==
    /\ [][(/\ Ran
           /\ last_run'.method = "register_skill"
           /\ InvalidRegistration(Head(timers).params))
            => /\ last_run'.raised
               /\ skills' = skills
               /\ (cur.serial = Head(timers).serial
                     => cur'.error_container \notin {None, ""})]_vars
    /\ [][(/\ pc = "wait"
           /\ cur.done_event
           /\ pc' # "wait"
           /\ reqs[Len(reqs)].method = "register_skill"
           /\ InvalidRegistration(reqs[Len(reqs)].params))
            => /\ out' = Append(out, response')
               /\ response'.has_error
               /\ ~response'.has_result
               /\ response'.code = INTERNAL_ERROR
               /\ response'.id = get_id(reqs[Len(reqs)])]_vars

\* a registration with a category outside the four and one with an empty
\* name were both answered with -32603; the stored skill is as it was
C17_Witness ==
    /\ Len(out) = 2
    /\ reqs[1].params.category = "bogus"
    /\ out[1] = ErrorResponse("b", INTERNAL_ERROR, "Invalid category")
    /\ reqs[2].params.name = ""
    /\ out[2] = ErrorResponse("a", INTERNAL_ERROR, "Skill name is required")
    /\ skills["echo"] = StoredSkill("copy")

\* the accept threads that have a client connection open
Serving == {t \in Threads : client[t] # 0}

\* C18: at most one client connection is being serviced at any time
C18_OneConnectionAtATime ==
    Cardinality(Serving) <= 1

\* what start() and stop() can change of the server
lifecycle == <<running, thread, socket, listeners, tpc, client>>

\* C19: start() on a running server creates no thread and no listener and
\* changes nothing else; stop() on a stopped server changes nothing
C19_StartStopIdempotent ==
    [][/\ (nStarts' # nStarts /\ running) => lifecycle' = lifecycle
       /\ (nStops' # nStops /\ ~running) => lifecycle' = lifecycle]_vars

\* start() was called twice and one thread exists; stop() was called
\* twice, and the thread has ended with its listener closed
C19_Witness ==
    /\ nStarts = 2
    /\ nStops = 2
    /\ ~joining
    /\ thread = 1
    /\ tpc = [t \in Threads |-> IF t = 1 THEN "done" ELSE "idle"]
    /\ listeners[1] = "closed"
    /\ ~running

\* C20: a connection whose read returns nothing or fails is closed and
\* the thread is back in the loop of _run_server, which goes on to accept
\* for as long as the server is running: the thread ends up in accept()
\* again unless the server is stopped
C20_ConnectionEndKeepsServer ==
    /\ [][\A t \in Threads :
            /\ (tpc[t] = "recv" /\ tpc'[t] \notin {"recv", "client"})
                 => tpc'[t] = "close"
            /\ (tpc[t] = "close" /\ tpc'[t] # "close")
                 => (client'[t] = 0 /\ tpc'[t] = "loop")
            /\ (tpc[t] = "loop" /\ tpc'[t] # "loop" /\ running)
                 => tpc'[t] = "accept"]_vars
    /\ \A t \in Threads :
         (tpc[t] = "close") ~> (tpc[t] = "accept" \/ ~running)

\* with no stop() so far, the thread that served the first connection to
\* its end is serving the second
C20_Witness ==
    /\ nStops = 0
    /\ client[1] = 2
    /\ tpc[1] = "recv"

\* the runs of the handler body of request n so far, and the tasks of
\* request n that stand registered
RunsOf(n) == Cardinality({i \in DOMAIN invocations : invocations[i].serial = n})
QueuedOf(n) == Cardinality({i \in DOMAIN timers : timers[i].serial = n})

\* C21: a line that resolves to a handler registers exactly one task; the
\* body of a request runs at most once, and neither a result, nor an
\* error, nor a timed-out wait registers or runs anything again
C21_NoRetries ==
    /\ [](\A n \in 1..nCalls : RunsOf(n) + QueuedOf(n) <= 1)
    /\ [][(TakesLine /\ pc' = "wait")
            => /\ Len(timers') = Len(timers) + 1
               /\ timers'[Len(timers')].serial = nCalls'
               /\ \A i \in DOMAIN timers : timers[i].serial # nCalls'
               /\ invocations' = invocations]_vars
    /\ [][(pc = "wait" /\ pc' # "wait")
            => (timers' = timers /\ invocations' = invocations)]_vars

\* the first request timed out and its body ran once, late; the second
\* raised and was answered; nothing is registered any more
C21_Witness ==
    /\ nCalls = 2
    /\ Len(invocations) = 2
    /\ invocations[1].serial = 1
    /\ invocations[1].late
    /\ last_run.serial = 2
    /\ last_run.raised
    /\ timers = <<>>
    /\ pc # "wait"

\* C22: every envelope _process_request returns, and so every response
\* line written, has a result or an error and not both
C22_ResultXorError ==
    /\ response.has_result # response.has_error
    /\ \A k \in Answered : out[k].has_result # out[k].has_error

\* a request answered by the timeout with a null result and one answered
\* with an error, on one connection
C22_Witness ==
    /\ nTimeouts = 1
    /\ \E j \in Answered, k \in Answered :
         /\ out[j] = ResultResponse(get_id(reqs[j]), NoneValue)
         /\ out[k].has_error
         /\ out[k].code = INTERNAL_ERROR
         /\ reqs[k].method = "create_object"

\* C27: at most one task of the bridge is registered or running at any
\* time
C27_OneOutstandingTask ==
    Len(timers) + (IF finishing # 0 THEN 1 ELSE 0) <= 1

\* C26: the static handler table is consulted first. A register_skill
\* call that names a static handler stores the skill, and a request for
\* that name still runs the static handler: the handler's dict is the
\* result, the handler's is_core row gets the direct call, and the stored
\* skill is neither run nor counted
C26_StaticShadowsDynamic ==
    /\ [][(Ran /\ Head(timers).method = "register_skill"
              /\ ~last_run'.raised)
            => /\ skills'[Head(timers).params.name].exists
               /\ skills'[Head(timers).params.name].code
                    = Head(timers).params.code]_vars
    /\ [][(Ran /\ last_run'.method \in handlers
              /\ Registered(last_run'.method))
            => LET m == last_run'.method
               IN  /\ Head(timers).dynamic_skill = NoSkill
                   /\ skills' = skills
                   /\ ~last_run'.raised
                        => /\ DirectCallBooked(m)
                           /\ stats'[m].is_core
                           /\ cur.serial = last_run'.serial
                                => cur'.result_container = Val("dict")]_vars

\* a skill that copies its params was registered as "create_object" and
\* is stored; the create_object request that followed was answered with
\* the static handler's dict, and the skill was never counted
C26_Witness ==
    /\ profile = "shadow"
    /\ Len(out) = 2
    /\ reqs[1].method = "register_skill"
    /\ out[1].has_result
    /\ skills["create_object"]
         = [StoredSkill("copy") EXCEPT !.call_count = 0]
    /\ reqs[2] = Request("b", "create_object", XParams)
    /\ out[2] = ResultResponse("b", Val("dict"))
    /\ stats["create_object"].is_core
    /\ stats["create_object"].direct_calls = 1

\* the response object has an error member and it is not null
HasError(d) == d.error \notin {AbsentMember, NullMember}

\* C25: the client takes a response for an error exactly when the
\* response object has an error member that is not null. from_dict carries
\* the id, result and error members over as they are (a missing id reads
\* "", a missing result or error reads None); is_error is true exactly
\* when error is not None; send_request raises in that case and returns
\* result otherwise
C25_ErrorIffErrorMember ==
    /\ blender_response # NoReceived
         => /\ response_data.id # Absent
                 => blender_response.id = response_data.id
            /\ response_data.result # Absent
                 => blender_response.result = response_data.result
            /\ response_data.error # AbsentMember
                 => blender_response.error = response_data.error
            /\ response_data.id = Absent => blender_response.id = ""
            /\ response_data.result = Absent
                 => blender_response.result = None
            /\ response_data.error = AbsentMember
                 => blender_response.error = NullMember
            /\ is_error(blender_response) <=> HasError(response_data)
    /\ sent # NoOutcome
         => /\ sent.kind = "raised" <=> HasError(response_data)
            /\ sent.kind = "returned" <=> ~HasError(response_data)
            /\ sent.kind = "returned"
                 => sent.value = blender_response.result

\* an error answer with a null id and an empty error object made
\* send_request raise with the default code and message
C25_Witness ==
    /\ response_data = [id |-> None, result |-> Absent,
                        error |-> ErrorObject(Absent, Absent)]
    /\ blender_response = [id |-> None, result |-> None,
                           error |-> ErrorObject(Absent, Absent)]
    /\ sent.kind = "raised"
    /\ sent.exception = "Exception"
    /\ sent.code = "unknown"
    /\ sent.message = "Unknown error"

\* the statement that ends the function under way has just committed
Commits(op) ==
    conn.open /\ conn.op = op /\ ~conn'.open /\ ~conn'.crashed

\* C23: register_core_handlers leaves an is_core row for every static
\* handler, so that a get_skill_statistics without a name lists every one
\* of them; a row that was there keeps its counters and its time, a row it
\* creates starts at zero, and the rows of other names are left alone
C23_SeedKeepsCounters ==
    [][Commits("register_core_handlers")
         => /\ \A n \in handlers :
                 /\ stats'[n].exists
                 /\ stats'[n].is_core
                 /\ stats[n].exists => stats'[n] = stats[n]
                 /\ ~stats[n].exists
                      => /\ stats'[n].direct_calls = 0
                         /\ stats'[n].indirect_calls = 0
                         /\ stats'[n].total_time_ms = 0
                 /\ handle_get_skill_statistics(
                        NoParams, skills', stats', call_graph')
                      .value.rows[n].exists
            /\ \A n \in StatNames \ handlers : stats'[n] = stats[n]
            /\ skills' = skills
            /\ call_graph' = call_graph]_vars

\* register_core_handlers has just run on a store in which render_image
\* had been called: every handler has a row, and render_image has kept
\* its call and its time
C23_Witness ==
    /\ ~conn.open
    /\ ~conn.crashed
    /\ conn.op = "register_core_handlers"
    /\ \A n \in handlers : stats[n].exists /\ stats[n].is_core
    /\ stats["render_image"].indirect_calls = 1
    /\ stats["render_image"].total_time_ms = MaxElapsed
    /\ stats["create_object"].direct_calls = 0

\* the list_skills params ask for no category
NoFilter(asked) == asked.category \in {Absent, ""}

\* C24: list_skills answers one is_dynamic false entry for every static
\* handler whatever the category filter, and one is_dynamic true entry
\* for every registered dynamic skill of the category asked for (every
\* registered skill when no category is asked for); count is the number
\* of entries; an entry has a code key exactly when it is dynamic and
\* include_code is set
C24_ListSkills ==
    answer.t = "skills"
      => /\ \A n \in handlers :
              Cardinality({e \in answer.entries :
                             e.name = n /\ ~e.is_dynamic}) = 1
         /\ \A e \in answer.entries : ~e.is_dynamic => e.name \in handlers
         /\ \A n \in DynamicNames :
              Cardinality({e \in answer.entries :
                             e.name = n /\ e.is_dynamic})
                = IF skills[n].exists
                     /\ (NoFilter(answer.asked)
                           \/ skills[n].category = answer.asked.category)
                  THEN 1 ELSE 0
         /\ \A e \in answer.entries : e.is_dynamic => e.name \in DynamicNames
         /\ answer.count = Cardinality(answer.entries)
         /\ \A e \in answer.entries :
              /\ "code" \in e.keys
                   <=> (e.is_dynamic /\ answer.asked.include_code = "True")
              /\ "code" \in e.keys => e.code = skills[e.name].code

\* two skills are registered, "echo" as simple and "create_object" as
\* standard; list_skills with category simple and include_code answers
\* the six static handlers and "echo" with its code, and leaves the
\* dynamic "create_object" out
C24_Witness ==
    /\ answer.t = "skills"
    /\ answer.asked = ListParams("simple", "True")
    /\ skills["echo"].exists
    /\ skills["echo"].category = "simple"
    /\ skills["create_object"].exists
    /\ skills["create_object"].category = "standard"
    /\ answer.count = Cardinality(handlers) + 1
    /\ \E e \in answer.entries :
         e.name = "echo" /\ e.is_dynamic /\ e.code = "copy"
    /\ \E e \in answer.entries : e.name = "create_object" /\ ~e.is_dynamic
    /\ ~\E e \in answer.entries : e.name = "create_object" /\ e.is_dynamic

\* the statement of the function under way that is executed in this step
Executes(op, kind) ==
    /\ conn.open
    /\ conn.op = op
    /\ conn.todo # <<>>
    /\ Head(conn.todo).kind = kind
    /\ conn'.open
    /\ conn'.done # conn.done

\* the calls the edges of the graph count towards callee
RECURSIVE EdgeSum(_, _, _)
EdgeSum(g, callers, callee) ==
    IF callers = {} THEN 0
    ELSE LET c == CHOOSE x \in callers : TRUE
         IN  g[<<c, callee>>] + EdgeSum(g, callers \ {c}, callee)

C29_EdgeCalleeHasRow ==
    /\ [](\A e \in DOMAIN call_graph :
            /\ call_graph[e] > 0 => stats[e[2]].exists
            /\ conn.graph[e] > 0 => conn.stats[e[2]].exists)
    /\ [][\A n \in StatNames : stats[n].exists => stats'[n].exists]_vars

\* render_image was called by render_product_views and a skill was
\* unregistered afterwards: the edge and the row of render_image are both
\* there (and render_product_views, never called itself, has no row)
C29_Witness ==
    /\ ~conn.open
    /\ ~conn.crashed
    /\ conn.op = "unregister_skill"
    /\ call_graph[<<CALLER_NAME, "render_image">>] = 1
    /\ stats["render_image"].exists
    /\ stats["render_image"].indirect_calls = 1
    /\ ~stats[CALLER_NAME].exists

\* C30: whatever the store operation, no statistics row and no edge goes
\* away, and no direct_calls, indirect_calls or edge call_count decreases
C30_CountersNeverDecrease ==
    [][/\ \A n \in StatNames :
            stats[n].exists
              => /\ stats'[n].exists
                 /\ stats'[n].direct_calls >= stats[n].direct_calls
                 /\ stats'[n].indirect_calls >= stats[n].indirect_calls
       /\ \A e \in DOMAIN call_graph :
            call_graph'[e] >= call_graph[e]]_vars

\* the skill "echo" was registered, run once and unregistered: its
\* definition is gone and its statistics row still shows the call
C30_Witness ==
    /\ ~conn.open
    /\ ~conn.crashed
    /\ conn.op = "unregister_skill"
    /\ conn.done # <<>>
    /\ ~skills["echo"].exists
    /\ stats["echo"].exists
    /\ stats["echo"].direct_calls = 1
    /\ nOps = 3

\* C35: the result and error slots belong to one request. A task that
\* runs when the network thread is no longer waiting for its request
\* writes nothing the network thread reads and sets no event it waits on,
\* and the response written at the end of a wait is built from the slots
\* of the request just dispatched, which only that request's own task
\* can have written
C35_SlotsArePrivate ==
    /\ [][(Ran /\ last_run'.serial # cur.serial)
            => (cur' = cur /\ out' = out /\ response' = response)]_vars
    /\ [][(finishing # 0 /\ finishing' = 0 /\ finishing # cur.serial)
            => (cur' = cur /\ out' = out /\ response' = response)]_vars
    /\ [][(pc = "wait" /\ pc' # "wait")
            => /\ cur.serial = nCalls
               /\ response' = BridgeResponse(cur)
               /\ (cur.result_container # NoneValue
                     \/ cur.error_container # None)
                    => \E i \in DOMAIN invocations :
                          /\ invocations[i].serial = cur.serial
                          /\ ~invocations[i].late]_vars

\* the skill "echo", which copies its params, timed out and ran late,
\* while the network thread was waiting for the create_object request
\* that followed; that request was answered with its own handler's dict
C35_Witness ==
    /\ Len(out) = 2
    /\ reqs[1].method = "echo"
    /\ skills["echo"].code = "copy"
    /\ out[1] = ResultResponse(get_id(reqs[1]), NoneValue)
    /\ reqs[2].method = "create_object"
    /\ out[2] = ResultResponse("a", Val("dict"))
    /\ Len(invocations) = 2
    /\ invocations[1].serial = 1
    /\ invocations[1].late
    /\ invocations[2].serial = 2
    /\ ~invocations[2].late

\* C36: once stop() has returned (and until start() is called again) no
\* accept thread takes request lines out of recv() and processes them
C36_NoDispatchAfterStop ==
    [][(~running /\ ~joining /\ nStops > 0)
         => \A t \in Threads :
               ~(tpc[t] = "recv" /\ tpc'[t] = "client")]_vars

\* a direct call of fn has just returned normally
ReturnedFrom(fn) ==
    nOps' = nOps + 1 /\ invoked'.fn = fn /\ ~invoked'.raised

Given(caller) == caller \notin {None, ""}

C34_ResultOrSuccessMarker ==
    [][ReturnedFrom("execute_dynamic_skill")
         => invoked'.value
              = CASE invoked'.code \in {"noresult", "none"} -> SuccessMarker
                  [] invoked'.code = "copy" -> ParamsValue(XParams)
                  [] invoked'.code = "zero" -> Val("0")
                  [] invoked'.code = "nonserial" -> NonSerializable]_vars

\* the skill whose code is `result = None` has run and returned the
\* success marker
C34_Witness ==
    /\ invoked.fn = "execute_dynamic_skill"
    /\ invoked.code = "none"
    /\ ~invoked.raised
    /\ invoked.value = SuccessMarker
    /\ skills["echo"].call_count = 1

C38_LegacyCountIsStatisticsTotal ==
    \A n \in DynamicNames :
       skills[n].exists
         => skills[n].call_count
              = stats[n].direct_calls + stats[n].indirect_calls

\* C39: unregistering a skill deletes its definition and nothing else.
\* Whether handle_unregister_skill returns or raises, every statistics
\* row and every edge is as before, the other definitions too, and
\* get_skill_statistics and get_call_graph answer as they did before,
\* whatever their filters; when it returns, the definition is gone
C39_UnregisterKeepsStatistics ==
    [][(nOps' = nOps + 1 /\ invoked'.fn = "handle_unregister_skill")
         => LET name == invoked'.name
            IN  /\ stats' = stats
                /\ call_graph' = call_graph
                /\ \A n \in DynamicNames \ {name} : skills'[n] = skills[n]
                /\ IF invoked'.raised
                   THEN skills' = skills /\ ~skills[name].exists
                   ELSE skills[name].exists /\ skills'[name] = NoSkill
                /\ \A n \in {Absent, name} :
                     handle_get_skill_statistics(
                         [NoParams EXCEPT !.name = n],
                         skills', stats', call_graph').value
                       = handle_get_skill_statistics(
                             [NoParams EXCEPT !.name = n],
                             skills, stats, call_graph).value
                /\ \A c \in {Absent, name}, e \in {Absent, name} :
                     handle_get_call_graph(
                         CallGraphParams(c, e),
                         skills', stats', call_graph').value
                       = handle_get_call_graph(
                             CallGraphParams(c, e),
                             skills, stats, call_graph).value]_vars

\* the skill "echo" was run with render_product_views as its caller and
\* then unregistered: get_call_graph({"callee": "echo"}) still returns the
\* edge, and the statistics row of echo still has the indirect call
C39_Witness ==
    /\ invoked.fn = "handle_get_call_graph"
    /\ invoked.name = "echo"
    /\ ~invoked.raised
    /\ ~skills["echo"].exists
    /\ invoked.value.count = 1
    /\ invoked.value.edges[<<CALLER_NAME, "echo">>] = 1
    /\ stats["echo"].exists
    /\ stats["echo"].indirect_calls = 1

\* the bytes the add-on has taken off the connection
Received == SubSeq(stream, 1, Len(stream) - Len(wire))

\* the characters of a prefix of what the peer wrote: a lead byte whose
\* continuation byte is still to come is not a character yet
RECURSIVE Written(_)
Written(bytes) ==
    IF bytes = <<>> THEN <<>>
    ELSE IF bytes[1] = "lead"
    THEN IF Len(bytes) >= 2 THEN <<"eacute">> \o Written(SubSeq(bytes, 3, Len(bytes)))
         ELSE <<>>
    ELSE <<bytes[1]>> \o Written(Tail(bytes))

\* the requests of a sequence of characters: its newline-terminated lines
\* that are not blank, in order
RECURSIVE Requests(_, _)
Requests(chars, line) ==
    IF chars = <<>> THEN <<>>
    ELSE IF chars[1] = "nl"
    THEN (IF \A i \in DOMAIN line : line[i] = " " THEN <<>> ELSE <<line>>)
           \o Requests(Tail(chars), <<>>)
    ELSE Requests(Tail(chars), Append(line, chars[1]))

\* C33: however recv() cuts the stream into chunks, the lines dispatched
\* are the newline-terminated, non-blank lines of the bytes received so
\* far, each once and in order: nothing is dispatched before its newline
\* has been received, nothing for a blank line, nothing for what has no
\* newline when the peer closes
C33_LineFraming ==
    dispatched = Requests(Written(Received), <<>>)

\* C40: the value a send_request call returns is the result of the
\* response to the request that same call wrote, whatever calls and read
\* timeouts came before it
C40_ReturnsOwnResponse ==
    delivered.kind = "returned" => delivered.answers = delivered.call

====
